---- MODULE Spec2Model ----
(***************************************************************************)
(* Output descriptors of elements-miniscript (src/descriptor/mod.rs):      *)
(* the Descriptor sum type, its string format (prefix, checksum, taproot   *)
(* parse order), the string-prefix classifier DescriptorType::from_str,    *)
(* and the multipath resolver.                                             *)
(*                                                                         *)
(* A string is a sequence of one-character strings, so that prefixes,      *)
(* slices and the '#' split are computed, not assumed.  Keys are           *)
(* DescriptorPublicKey values.  The per-variant modules (bare, sh,         *)
(* segwitv0, tr, csfs_cov), the expression parser, the key syntax and the  *)
(* checksum live outside mod.rs; they are modelled from the format         *)
(* description and from the strings the tests of mod.rs use.               *)
(***************************************************************************)
EXTENDS Integers, Sequences, FiniteSets, TLC

VARIABLES pc, desc, str, origin, res, chosen, calls, outs, arg, txin

vars == <<pc, desc, str, origin, res, chosen, calls, outs, arg, txin>>

\* ------------------------------------------------------------------ bounds

\* Longest multi-index step of a multipath key (<0;1;..>).
MaxPaths == 3

\* ------------------------------------------------------------------ results

Ok(v) == [ok |-> TRUE, v |-> v]
Err(e) == [ok |-> FALSE, e |-> e]

\* Option
Some(v) == [some |-> TRUE, v |-> v]
None == [some |-> FALSE]

\* ------------------------------------------------------------------ strings

\* The words and separators of the descriptor syntax, as character sequences.
Tok ==
  [el |-> <<"e", "l">>,
   tr |-> <<"t", "r">>,
   pk |-> <<"p", "k">>,
   pkh |-> <<"p", "k", "h">>,
   wpkh |-> <<"w", "p", "k", "h">>,
   sh |-> <<"s", "h">>,
   wsh |-> <<"w", "s", "h">>,
   covwsh |-> <<"c", "o", "v", "w", "s", "h">>,
   multi |-> <<"m", "u", "l", "t", "i">>,
   sortedmulti |-> <<"s", "o", "r", "t", "e", "d", "m", "u", "l", "t", "i">>,
   ver_eq |-> <<"v", "e", "r", "_", "e", "q">>,
   spk_eq |-> <<"s", "p", "k", "_", "e", "q">>,
   c_pk_k |-> <<"c", ":", "p", "k", "_", "k">>,
   c_pk_h |-> <<"c", ":", "p", "k", "_", "h">>,
   pegin |-> <<"p", "e", "g", "i", "n">>,
   legacy_pegin |-> <<"l", "e", "g", "a", "c", "y", "_", "p", "e", "g", "i", "n">>,
   open |-> <<"(">>,
   close |-> <<")">>,
   comma |-> <<",">>,
   hash |-> <<"#">>,
   wild |-> <<"/", "*">>]

\* ELMTS_STR, the prefix of every Elements descriptor.
ELMTS_STR == Tok.el

\* The ? operator: the error of r, or F applied to its value.
AndThen(r, F(_)) == IF r.ok THEN F(r.v) ELSE r

\* Result::map
MapOk(r, F(_)) == IF r.ok THEN Ok(F(r.v)) ELSE r

\* let v = ..; F(v)
With(v, F(_)) == F(v)

starts_with(s, p) == Len(s) >= Len(p) /\ SubSeq(s, 1, Len(p)) = p

\* s[n..]: the characters after the first n.
DropFirst(s, n) == SubSeq(s, n + 1, Len(s))

Digits == <<"0", "1", "2", "3", "4", "5", "6", "7", "8", "9">>

IsDigit(c) == \E i \in DOMAIN Digits : Digits[i] = c

DigitOf(c) == (CHOOSE i \in DOMAIN Digits : Digits[i] = c) - 1

\* Position of the first character of s that is in set cs, 0 if there is none.
FirstOf(s, cs) ==
  IF \E i \in DOMAIN s : s[i] \in cs
  THEN CHOOSE i \in DOMAIN s : s[i] \in cs /\ \A j \in 1..(i - 1) : s[j] \notin cs
  ELSE 0

\* ------------------------------------------------------------------ checksum

INPUT_CHARSET ==
  <<"0", "1", "2", "3", "4", "5", "6", "7", "8", "9", "(", ")", "[", "]", "h",
    ",", "/", "*", "a", "b", "c", "d", "e", "f", "g", "@", ":", "$", "%",
    "{", "}", "I", "J", "K", "L", "M", "N", "O", "P", "Q", "R", "S", "T", "U",
    "V", "W", "X", "Y", "Z", "&", "+", "-", ".", ";", "<", "=", ">", "?", "!",
    "^", "_", "|", "~", "i", "j", "k", "l", "m", "n", "o", "p", "q", "r", "s",
    "t", "u", "v", "w", "x", "y", "z", "A", "B", "C", "D", "E", "F", "G", "H",
    "#", " ">>

CHECKSUM_CHARSET ==
  <<"q", "p", "z", "r", "y", "9", "x", "8", "g", "f", "2", "t", "v", "d", "w",
    "0", "s", "3", "j", "n", "5", "4", "k", "h", "c", "e", "6", "m", "u", "a",
    "7", "l">>

CHECKSUM_LEN == 8

InputChars == {INPUT_CHARSET[i] : i \in DOMAIN INPUT_CHARSET}

CharCode == [c \in InputChars |-> (CHOOSE i \in DOMAIN INPUT_CHARSET : INPUT_CHARSET[i] = c) - 1]

\* What precedes the first '#' (all of s when there is none), what follows it.
BodyOf(s) == LET n == FirstOf(s, {"#"}) IN IF n = 0 THEN s ELSE SubSeq(s, 1, n - 1)

ChecksumOf(s) == LET n == FirstOf(s, {"#"}) IN IF n = 0 THEN <<>> ELSE DropFirst(s, n)

\* Two adjacent stretches of the body joined: <<value, weight>>.
ChecksumJoin(a, b, m) == <<(a[1] * b[2] + b[1]) % m, (a[2] * b[2]) % m>>

\* One checksum symbol: a positional polynomial over the characters of the
\* body, folded to 5 bits.  Every character and its position enters.
RECURSIVE ChecksumFold(_, _)
ChecksumFold(s, j) ==
  IF s = <<>> THEN <<0, 1>>
  ELSE IF Len(s) = 1
  THEN <<(CharCode[s[1]] + j) % Len(CHECKSUM_CHARSET), (2 * j + 3) % Len(CHECKSUM_CHARSET)>>
  ELSE ChecksumJoin(ChecksumFold(SubSeq(s, 1, Len(s) \div 2), j),
                    ChecksumFold(SubSeq(s, Len(s) \div 2 + 1, Len(s)), j),
                    Len(CHECKSUM_CHARSET))

ChecksumSymbol(body, j) ==
  With(ChecksumFold(body, j),
       LAMBDA f : CHECKSUM_CHARSET[((f[1] + f[2]) % Len(CHECKSUM_CHARSET)) + 1])

\* checksum::desc_checksum: 8 symbols over the body, an error on a character
\* outside the input character set.
desc_checksum(body) ==
  IF \E i \in DOMAIN body : body[i] \notin InputChars
  THEN Err("BadDescriptor")
  ELSE Ok([j \in 1..CHECKSUM_LEN |-> ChecksumSymbol(body, j)])

\* checksum::verify_checksum: split at the first '#'; what follows must be
\* exactly the checksum of what precedes.  Returns the body.
verify_checksum(s) ==
  IF FirstOf(s, {"#"}) = 0 THEN Ok(s)
  ELSE AndThen(desc_checksum(BodyOf(s)),
               LAMBDA expected : IF ChecksumOf(s) # expected THEN Err("BadDescriptor")
                                 ELSE Ok(BodyOf(s)))

\* ------------------------------------------------------------------ keys

\* DescriptorPublicKey: Single (a raw key), XPub (one derivation path),
\* MultiXPub (a multi-index step giving several parallel paths).
Single(n) == [kind |-> "Single", name |-> n]
XPub(id, p, w) == [kind |-> "XPub", id |-> id, path |-> p, wild |-> w]
MultiXPub(id, ps, w) == [kind |-> "MultiXPub", id |-> id, paths |-> ps, wild |-> w]

SingleNames == {"A", "B"}

\* MiniscriptKey::num_der_paths for DescriptorPublicKey.
num_der_paths(k) ==
  CASE k.kind = "XPub" -> 1
    [] k.kind = "MultiXPub" -> Len(k.paths)
    [] OTHER -> 0

key_is_multipath(k) == k.kind = "MultiXPub"

key_has_wildcard(k) == k.kind \in {"XPub", "MultiXPub"} /\ k.wild

\* DescriptorPublicKey::into_single_keys.
into_single_keys(k) ==
  IF k.kind = "MultiXPub"
  THEN [i \in 1..Len(k.paths) |-> XPub(k.id, k.paths[i], k.wild)]
  ELSE <<k>>

RECURSIVE JoinDigits(_)
JoinDigits(ps) ==
  IF Len(ps) = 1 THEN <<Digits[ps[1] + 1]>>
  ELSE <<Digits[ps[1] + 1], ";">> \o JoinDigits(Tail(ps))

\* Display of a key: A | X<id>/<p>[/*] | X<id>/<p;q;..>[/*]
key_to_string(k) ==
  CASE k.kind = "Single" -> <<k.name>>
    [] k.kind = "Str" -> k.s
    [] k.kind = "XPub" ->
         <<"X", Digits[k.id + 1], "/", Digits[k.path + 1]>> \o (IF k.wild THEN Tok.wild ELSE <<>>)
    [] k.kind = "MultiXPub" ->
         <<"X", Digits[k.id + 1], "/", "<">> \o JoinDigits(k.paths) \o <<">">>
           \o (IF k.wild THEN Tok.wild ELSE <<>>)

\* The paths of a multi-index step "p;q;..": digits separated by ';'.
RECURSIVE ParsePaths(_)
ParsePaths(s) ==
  IF s = <<>> \/ ~IsDigit(s[1]) THEN Err("Unexpected")
  ELSE IF Len(s) = 1 THEN Ok(<<DigitOf(s[1])>>)
  ELSE IF s[2] # ";" THEN Err("Unexpected")
  ELSE LET r == ParsePaths(DropFirst(s, 2)) IN
       IF r.ok THEN Ok(<<DigitOf(s[1])>> \o r.v) ELSE r

\* DescriptorPublicKey::from_str.
key_from_str(s) ==
  IF Len(s) = 1 /\ s[1] \in SingleNames THEN Ok(Single(s[1]))
  ELSE IF Len(s) < 4 \/ s[1] # "X" \/ ~IsDigit(s[2]) \/ s[3] # "/" THEN Err("Unexpected")
  ELSE LET w == Len(s) >= 6 /\ SubSeq(s, Len(s) - 1, Len(s)) = Tok.wild
           core == SubSeq(s, 4, IF w THEN Len(s) - 2 ELSE Len(s))
       IN IF Len(core) = 1 /\ IsDigit(core[1])
          THEN Ok(XPub(DigitOf(s[2]), DigitOf(core[1]), w))
          ELSE IF Len(core) >= 5 /\ core[1] = "<" /\ core[Len(core)] = ">"
          THEN LET ps == ParsePaths(SubSeq(core, 2, Len(core) - 1)) IN
               IF ps.ok /\ Len(ps.v) >= 2 THEN Ok(MultiXPub(DigitOf(s[2]), ps.v, w))
               ELSE Err("Unexpected")
          ELSE Err("Unexpected")

\* A key of type String: any text.
StrKey(s) == [kind |-> "Str", s |-> s]

\* Pk::from_str for the key type kt of the descriptor being parsed.
Pk_from_str(s, kt) == IF kt = "String" THEN Ok(StrKey(s)) ELSE key_from_str(s)

\* DescriptorSecretKey: a raw secret key, written in lower case; to_public
\* gives the raw public key of the same letter.
SecretNames == {"a", "b"}

SecretKey(n) == [kind |-> "Secret", name |-> n]

DescriptorSecretKey_from_str(s) ==
  IF Len(s) = 1 /\ s[1] \in SecretNames THEN Ok(SecretKey(s[1])) ELSE Err("Unexpected")

to_public(sk) == Single(IF sk.name = "a" THEN "A" ELSE "B")

\* ------------------------------------------------------------------ miniscript

\* The script terms the model carries: pk(K), pkh(K), multi(k,K,..), the
\* constants 1 and 0 and two extension fragments of the covenant extension
\* set: ver_eq(n), and spk_eq(e), whose argument e is an extension
\* parameter.
MsPk(k) == [t |-> "pk", ks |-> <<k>>]
MsPkh(k) == [t |-> "pkh", ks |-> <<k>>]
MsMulti(n, ks) == [t |-> "multi", n |-> n, ks |-> ks]
MsVerEq(n) == [t |-> "ver_eq", n |-> n, ks |-> <<>>]
MsSpkEq(e) == [t |-> "spk_eq", e |-> e, ks |-> <<>>]
MsTrue == [t |-> "true", ks |-> <<>>]

\* An extension parameter written as text.
ExtParam(s) == [ext |-> s]
MsFalse == [t |-> "false", ks |-> <<>>]

ms_uses_ext(ms) == ms.t \in {"ver_eq", "spk_eq"}

RECURSIVE JoinKeys(_)
JoinKeys(ks) ==
  IF ks = <<>> THEN <<>>
  ELSE Tok.comma \o key_to_string(Head(ks)) \o JoinKeys(Tail(ks))

\* Display of a script term; c:pk_k(K) prints as pk(K), c:pk_h(K) as pkh(K).
ms_to_string(ms) ==
  CASE ms.t = "pk" -> Tok.pk \o Tok.open \o key_to_string(ms.ks[1]) \o Tok.close
    [] ms.t = "pkh" -> Tok.pkh \o Tok.open \o key_to_string(ms.ks[1]) \o Tok.close
    [] ms.t = "multi" ->
            Tok.multi \o Tok.open \o <<Digits[ms.n + 1]>> \o JoinKeys(ms.ks) \o Tok.close
    [] ms.t = "ver_eq" -> Tok.ver_eq \o Tok.open \o <<Digits[ms.n + 1]>> \o Tok.close
    [] ms.t = "spk_eq" -> Tok.spk_eq \o Tok.open \o ms.e.ext \o Tok.close
    [] ms.t = "true" -> <<"1">>
    [] ms.t = "false" -> <<"0">>

\* SortedMultiVec
SortedMulti(n, ks) == [n |-> n, ks |-> ks]

sortedmulti_to_string(sm) ==
  Tok.sortedmulti \o Tok.open \o <<Digits[sm.n + 1]>> \o JoinKeys(sm.ks) \o Tok.close

\* ------------------------------------------------------------------ descriptors

\* WshInner: SortedMulti | Ms
WshSortedMulti(sm) == [t |-> "SortedMulti", sm |-> sm]
WshMs(ms) == [t |-> "Ms", ms |-> ms]
\* ShInner: Wsh | Wpkh | SortedMulti | Ms
ShWsh(w) == [t |-> "Wsh", wsh |-> w]
ShWpkh(k) == [t |-> "Wpkh", pk |-> k]
ShSortedMulti(sm) == [t |-> "SortedMulti", sm |-> sm]
ShMs(ms) == [t |-> "Ms", ms |-> ms]
\* TapTree: a leaf or a branch of two subtrees (depth 1 in the model).
TapLeaf(ms) == [t |-> "Leaf", ms |-> ms]
TapBranch(l, r) == [t |-> "Tree", l |-> l, r |-> r]

\* enum Descriptor: the eight variants.  An Option is a sequence of length
\* at most one.
DBare(ms) == [variant |-> "Bare", ms |-> ms]
DPkh(k) == [variant |-> "Pkh", pk |-> k]
DWpkh(k) == [variant |-> "Wpkh", pk |-> k]
DSh(inner) == [variant |-> "Sh", inner |-> inner]
DWsh(inner) == [variant |-> "Wsh", inner |-> inner]
DTr(k, tree) == [variant |-> "Tr", pk |-> k, tree |-> tree]
DTrExt(k, tree) == [variant |-> "TrExt", pk |-> k, tree |-> tree]
DCov(k, ms) == [variant |-> "LegacyCSFSCov", pk |-> k, ms |-> ms]

\* Descriptor::desc_type
desc_type(d) ==
  CASE d.variant = "Bare" -> "Bare"
    [] d.variant = "Pkh" -> "Pkh"
    [] d.variant = "Wpkh" -> "Wpkh"
    [] d.variant = "Sh" ->
         (CASE d.inner.t = "Wsh" ->
                 (IF d.inner.wsh.t = "SortedMulti" THEN "ShWshSortedMulti" ELSE "ShWsh")
            [] d.inner.t = "Wpkh" -> "ShWpkh"
            [] d.inner.t = "SortedMulti" -> "ShSortedMulti"
            [] d.inner.t = "Ms" -> "Sh")
    [] d.variant = "Wsh" -> (IF d.inner.t = "SortedMulti" THEN "WshSortedMulti" ELSE "Wsh")
    [] d.variant = "LegacyCSFSCov" -> "Cov"
    [] d.variant = "Tr" -> "Tr"
    [] d.variant = "TrExt" -> "Tr"

\* DescriptorType::segwit_version
segwit_version(ty) ==
  CASE ty = "Tr" -> Some("V1")
    [] ty \in {"Wpkh", "ShWpkh", "Wsh", "ShWsh", "ShWshSortedMulti", "WshSortedMulti"} ->
         Some("V0")
    [] ty \in {"Bare", "Sh", "Pkh", "ShSortedMulti"} -> None
    [] ty = "LegacyPegin" -> Some("V1")
    [] ty = "Pegin" -> None
    [] ty = "Cov" -> None

\* ------------------------------------------------------------------ key leaves

wsh_inner_keys(w) == IF w.t = "SortedMulti" THEN w.sm.ks ELSE w.ms.ks

sh_inner_keys(i) ==
  CASE i.t = "Wsh" -> wsh_inner_keys(i.wsh)
    [] i.t = "Wpkh" -> <<i.pk>>
    [] i.t = "SortedMulti" -> i.sm.ks
    [] i.t = "Ms" -> i.ms.ks

taptree_keys(t) == IF t.t = "Leaf" THEN t.ms.ks ELSE t.l.ms.ks \o t.r.ms.ks

\* The key leaves of a descriptor in structural (left-to-right) order: the
\* order in which the per-variant for_each_key and translate_pk visit them.
KeysOf(d) ==
  CASE d.variant = "Bare" -> d.ms.ks
    [] d.variant \in {"Pkh", "Wpkh"} -> <<d.pk>>
    [] d.variant = "Sh" -> sh_inner_keys(d.inner)
    [] d.variant = "Wsh" -> wsh_inner_keys(d.inner)
    [] d.variant \in {"Tr", "TrExt"} ->
         <<d.pk>> \o (IF d.tree = <<>> THEN <<>> ELSE taptree_keys(d.tree[1]))
    [] d.variant = "LegacyCSFSCov" -> <<d.pk>> \o d.ms.ks

\* ------------------------------------------------------------------ Display

wsh_inner_to_string(w) ==
  IF w.t = "SortedMulti" THEN sortedmulti_to_string(w.sm) ELSE ms_to_string(w.ms)

sh_inner_to_string(i) ==
  CASE i.t = "Wsh" -> Tok.wsh \o Tok.open \o wsh_inner_to_string(i.wsh) \o Tok.close
    [] i.t = "Wpkh" -> Tok.wpkh \o Tok.open \o key_to_string(i.pk) \o Tok.close
    [] i.t = "SortedMulti" -> sortedmulti_to_string(i.sm)
    [] i.t = "Ms" -> ms_to_string(i.ms)

taptree_to_string(t) ==
  IF t.t = "Leaf" THEN ms_to_string(t.ms)
  ELSE <<"{">> \o ms_to_string(t.l.ms) \o Tok.comma \o ms_to_string(t.r.ms) \o <<"}">>

tr_to_string(d) ==
  Tok.el \o Tok.tr \o Tok.open \o key_to_string(d.pk)
    \o (IF d.tree = <<>> THEN <<>> ELSE Tok.comma \o taptree_to_string(d.tree[1]))
    \o Tok.close

\* impl fmt::Debug for Descriptor / to_string_no_chksum: the body, each
\* variant printed by its own module; Tr and TrExt share the printer of Tr.
to_string_no_chksum(d) ==
  CASE d.variant = "Bare" -> Tok.el \o ms_to_string(d.ms)
    [] d.variant = "Pkh" -> Tok.el \o Tok.pkh \o Tok.open \o key_to_string(d.pk) \o Tok.close
    [] d.variant = "Wpkh" -> Tok.el \o Tok.wpkh \o Tok.open \o key_to_string(d.pk) \o Tok.close
    [] d.variant = "Sh" -> Tok.el \o Tok.sh \o Tok.open \o sh_inner_to_string(d.inner) \o Tok.close
    [] d.variant = "Wsh" ->
            Tok.el \o Tok.wsh \o Tok.open \o wsh_inner_to_string(d.inner) \o Tok.close
    [] d.variant = "Tr" -> tr_to_string(d)
    [] d.variant = "TrExt" -> tr_to_string(d)
    [] d.variant = "LegacyCSFSCov" ->
         Tok.el \o Tok.covwsh \o Tok.open \o key_to_string(d.pk) \o Tok.comma
           \o ms_to_string(d.ms) \o Tok.close

\* The checksum writer every variant's Display ends with: '#' and the
\* checksum of what was written.
write_checksum(body) == body \o Tok.hash \o desc_checksum(body).v

\* Display that writes what Debug writes: the body without checksum.
to_string_as_debug(d) == to_string_no_chksum(d)

\* impl fmt::Display for Descriptor
to_string(d) == write_checksum(to_string_no_chksum(d))

\* ------------------------------------------------------------------ expression trees

\* expression::Tree: a name and its parenthesised, comma-separated arguments.
Tree(name, args) == [name |-> name, args |-> args]

RECURSIVE Tree_from_slice(_), Tree_parse_args(_, _)

\* expression::Tree::from_slice: returns the tree and the unread rest.
Tree_from_slice(sl) ==
  LET n == FirstOf(sl, {"(", ",", ")"}) IN
  IF n = 0 THEN Ok([tree |-> Tree(sl, <<>>), rest |-> <<>>])
  ELSE IF sl[n] # "("
  THEN Ok([tree |-> Tree(SubSeq(sl, 1, n - 1), <<>>), rest |-> DropFirst(sl, n - 1)])
  ELSE AndThen(Tree_parse_args(DropFirst(sl, n), <<>>),
               LAMBDA a : Ok([tree |-> Tree(SubSeq(sl, 1, n - 1), a.args), rest |-> a.rest]))

Tree_parse_args(sl, acc) ==
  AndThen(Tree_from_slice(sl),
          LAMBDA r : IF r.rest = <<>> THEN Err("ExpectedChar")
                     ELSE IF Head(r.rest) = ","
                     THEN Tree_parse_args(Tail(r.rest), Append(acc, r.tree))
                     ELSE IF Head(r.rest) = ")"
                     THEN Ok([args |-> Append(acc, r.tree), rest |-> Tail(r.rest)])
                     ELSE Err("Unexpected"))

\* expression::Tree::from_str: the whole string is one tree.
Tree_from_str(s) ==
  AndThen(Tree_from_slice(s),
          LAMBDA r : IF r.rest # <<>> THEN Err("Unexpected") ELSE Ok(r.tree))

IsTerminal(t) == t.args = <<>>

\* A terminal that is a key.
key_from_tree(t, kt) == IF IsTerminal(t) THEN Pk_from_str(t.name, kt) ELSE Err("Unexpected")

\* A terminal that is a one-digit number.
num_from_tree(t) ==
  IF IsTerminal(t) /\ Len(t.name) = 1 /\ IsDigit(t.name[1]) THEN Ok(DigitOf(t.name[1]))
  ELSE Err("Unexpected")

\* The keys of a threshold: k, K, K, ..  with 1 <= k <= number of keys.
thresh_from_args(args, kt) ==
  IF Len(args) < 2 THEN Err("Unexpected")
  ELSE AndThen(num_from_tree(args[1]),
         LAMBDA k : With([i \in 1..(Len(args) - 1) |-> key_from_tree(args[i + 1], kt)],
           LAMBDA ks : IF \E i \in DOMAIN ks : ~ks[i].ok THEN Err("Unexpected")
                       ELSE IF k < 1 \/ k > Len(ks) THEN Err("Unexpected")
                       ELSE Ok([n |-> k, ks |-> [i \in DOMAIN ks |-> ks[i].v]])))

\* Miniscript::from_tree under a script context; ext says whether the
\* extension set parses extension fragments (NoExt parses none).  The
\* aliases pk = c:pk_k and pkh = c:pk_h give the same term.
ms_from_tree(t, ctx, ext, kt) ==
  CASE t.name \in {Tok.pk, Tok.c_pk_k} /\ Len(t.args) = 1 ->
          MapOk(key_from_tree(t.args[1], kt), MsPk)
    [] t.name \in {Tok.pkh, Tok.c_pk_h} /\ Len(t.args) = 1 ->
            MapOk(key_from_tree(t.args[1], kt), MsPkh)
    [] t.name = Tok.multi /\ ctx # "Tap" ->
         MapOk(thresh_from_args(t.args, kt), LAMBDA m : MsMulti(m.n, m.ks))
    [] t.name = Tok.ver_eq /\ Len(t.args) = 1 /\ ext -> MapOk(num_from_tree(t.args[1]), MsVerEq)
    [] t.name = Tok.spk_eq /\ Len(t.args) = 1 /\ ext ->
         IF IsTerminal(t.args[1]) THEN Ok(MsSpkEq(ExtParam(t.args[1].name)))
         ELSE Err("Unexpected")
    [] t.name = <<"1">> /\ t.args = <<>> -> Ok(MsTrue)
    [] t.name = <<"0">> /\ t.args = <<>> -> Ok(MsFalse)
    [] OTHER -> Err("Unexpected")

sortedmulti_from_tree(t, kt) ==
  MapOk(thresh_from_args(t.args, kt), LAMBDA m : SortedMulti(m.n, m.ks))

\* Bare::from_tree: the name carries the "el" prefix.
Bare_from_tree(top, kt) ==
  ms_from_tree(IF starts_with(top.name, Tok.el) THEN Tree(DropFirst(top.name, 2), top.args)
               ELSE top,
               "Bare", FALSE, kt)

Pkh_from_tree(top, kt) == key_from_tree(top.args[1], kt)

Wpkh_from_tree(top, kt) == key_from_tree(top.args[1], kt)

\* The inside of wsh(..): sortedmulti(..) or a script term.
wsh_inner_from_tree(t, kt) ==
  IF t.name = Tok.sortedmulti THEN MapOk(sortedmulti_from_tree(t, kt), WshSortedMulti)
  ELSE MapOk(ms_from_tree(t, "Segwitv0", FALSE, kt), WshMs)

Wsh_from_tree(top, kt) == wsh_inner_from_tree(top.args[1], kt)

\* Sh::from_tree: wsh(..), wpkh(..), sortedmulti(..) or a script term.
Sh_from_tree(top, kt) ==
  With(top.args[1],
       LAMBDA t :
         CASE t.name = Tok.wsh /\ Len(t.args) = 1 ->
                 MapOk(wsh_inner_from_tree(t.args[1], kt), ShWsh)
           [] t.name = Tok.wpkh /\ Len(t.args) = 1 -> MapOk(key_from_tree(t.args[1], kt), ShWpkh)
           [] t.name = Tok.sortedmulti -> MapOk(sortedmulti_from_tree(t, kt), ShSortedMulti)
           [] OTHER -> MapOk(ms_from_tree(t, "Legacy", FALSE, kt), ShMs))

\* LegacyCSFSCov::from_tree: a key and a script term that may use extensions.
Cov_from_tree(top, kt) ==
  AndThen(key_from_tree(top.args[1], kt),
          LAMBDA k : MapOk(ms_from_tree(top.args[2], "Segwitv0", TRUE, kt),
                           LAMBDA m : [pk |-> k, ms |-> m]))

\* A script leaf of a taproot tree.
tapleaf_from_slice(sl, ext, kt) ==
  AndThen(Tree_from_slice(sl),
          LAMBDA r : MapOk(ms_from_tree(r.tree, "Tap", ext, kt),
                           LAMBDA m : [leaf |-> TapLeaf(m), rest |-> r.rest]))

\* The script tree of tr(K,<tree>): a leaf or {leaf,leaf}.
taptree_from_str(s, ext, kt) ==
  IF s = <<>> THEN Err("Unexpected")
  ELSE IF s[1] # "{"
  THEN AndThen(tapleaf_from_slice(s, ext, kt),
               LAMBDA l : IF l.rest # <<>> THEN Err("Unexpected") ELSE Ok(l.leaf))
  ELSE AndThen(tapleaf_from_slice(Tail(s), ext, kt),
         LAMBDA l : IF l.rest = <<>> \/ Head(l.rest) # "," THEN Err("Unexpected")
                    ELSE AndThen(tapleaf_from_slice(Tail(l.rest), ext, kt),
                           LAMBDA r : IF r.rest # <<"}">> THEN Err("Unexpected")
                                      ELSE Ok(TapBranch(l.leaf, r.leaf))))

\* The body eltr(<key>[,<tree>]) parsed with the extension set it is given.
Tr_from_body(b, ext, kt) ==
  IF ~(starts_with(b, Tok.el \o Tok.tr \o Tok.open) /\ Len(b) > 5 /\ b[Len(b)] = ")")
  THEN Err("Unexpected")
  ELSE LET inner == SubSeq(b, 6, Len(b) - 1)
           n == FirstOf(inner, {","})
       IN AndThen(Pk_from_str(IF n = 0 THEN inner ELSE SubSeq(inner, 1, n - 1), kt),
            LAMBDA k : IF n = 0 THEN Ok([pk |-> k, tree |-> <<>>])
                       ELSE MapOk(taptree_from_str(DropFirst(inner, n), ext, kt),
                                  LAMBDA t : [pk |-> k, tree |-> <<t>>]))

\* Tr::from_str: verifies the checksum itself, then parses the body.
Tr_from_str(s, ext, kt) == AndThen(verify_checksum(s), LAMBDA b : Tr_from_body(b, ext, kt))

\* Tr::from_tree on a generic expression tree: a key and at most one script
\* leaf, without extensions.
Tr_from_tree(top, kt) ==
  IF Len(top.args) \notin {1, 2} THEN Err("Unexpected")
  ELSE AndThen(key_from_tree(top.args[1], kt),
         LAMBDA k : IF Len(top.args) = 1 THEN Ok([pk |-> k, tree |-> <<>>])
                    ELSE MapOk(ms_from_tree(top.args[2], "Tap", FALSE, kt),
                               LAMBDA m : [pk |-> k, tree |-> <<TapLeaf(m)>>]))

\* ------------------------------------------------------------------ ForEachKey

\* A closure passed to for_each_key / for_any_key takes the state it captures
\* and a key, and gives [st, ret]: the captured state after the call and the
\* returned boolean.

\* The closure of is_multipath: DescriptorPublicKey::is_multipath
PredIsMultipath(st, k) == [st |-> st, ret |-> key_is_multipath(k)]

SinglePath == [tag |-> "SinglePath", len |-> 0]
MultipathLen(n) == [tag |-> "MultipathLen", len |-> n]
LenMismatch == [tag |-> "LenMismatch", len |-> 0]

\* The closure of multipath_length_mismatch: records the path count of the
\* first multipath key, flags a later different count, always returns true.
MultipathLenChecker(checker, key) ==
  LET n == num_der_paths(key) IN
  [ret |-> TRUE,
   st |-> IF n \in {0, 1} THEN checker
          ELSE CASE checker.tag = "SinglePath" -> MultipathLen(n)
                 [] checker.tag = "MultipathLen" ->
                      (IF checker.len # n THEN LenMismatch ELSE checker)
                 [] checker.tag = "LenMismatch" -> checker]

\* The closure of into_single_descriptors: `descriptors` holds n clones of
\* self once the first multipath key was seen.
GatherClones(n, key) ==
  IF n # 0 THEN [st |-> n, ret |-> TRUE]
  ELSE IF key.kind \in {"Single", "XPub"} THEN [st |-> n, ret |-> FALSE]
  ELSE [st |-> Len(key.paths), ret |-> TRUE]

\* The closure of from_desc_str: DescriptorSecretKey::from_str(pk).is_ok()
PredIsSecret(st, k) == [st |-> st, ret |-> DescriptorSecretKey_from_str(k.s).ok]

\* The closure of has_wildcard: key.has_wildcard()
PredHasWildcard(st, k) == [st |-> st, ret |-> key_has_wildcard(k)]

\* Calling the closure named pred.
CallPred(pred, st, key) ==
  CASE pred = "is_multipath" -> PredIsMultipath(st, key)
    [] pred = "has_wildcard" -> PredHasWildcard(st, key)
    [] pred = "multipath_length_mismatch" -> MultipathLenChecker(st, key)
    [] pred = "into_single_descriptors" -> GatherClones(st, key)
    [] pred = "from_desc_str" -> PredIsSecret(st, key)

\* A short-circuiting walk over key leaves.  neg says that the closure is
\* wrapped in a negation, as for_any_key wraps it.
RECURSIVE Iter(_, _, _, _)
Iter(keys, st, pred, neg) ==
  IF keys = <<>> THEN [st |-> st, ret |-> TRUE]
  ELSE LET r == CallPred(pred, st, Head(keys))
           holds == IF neg THEN ~r.ret ELSE r.ret
       IN IF holds THEN Iter(Tail(keys), r.st, pred, neg)
          ELSE [st |-> r.st, ret |-> FALSE]

\* for_each_key of a variant's own type: true iff the predicate holds for
\* every key leaf, stopping at the first leaf where it does not.
inner_for_each_key(d, st, pred, neg) == Iter(KeysOf(d), st, pred, neg)

\* ForEachKey::for_any_key (the trait's provided method) on the variant's own
\* type: !self.for_each_key(|key| !pred(key)).
inner_for_any_key(d, st, pred, neg) ==
  LET r == inner_for_each_key(d, st, pred, ~neg) IN [st |-> r.st, ret |-> ~r.ret]

\* impl ForEachKey for Descriptor: every variant forwards to its own
\* for_each_key, except LegacyCSFSCov, which forwards to for_any_key.
Descriptor_for_each_key(d, st, pred, neg) ==
  IF d.variant = "LegacyCSFSCov" THEN inner_for_any_key(d, st, pred, neg)
  ELSE inner_for_each_key(d, st, pred, neg)

\* ForEachKey::for_any_key on Descriptor.
Descriptor_for_any_key(d, st, pred) ==
  LET r == Descriptor_for_each_key(d, st, pred, TRUE) IN [st |-> r.st, ret |-> ~r.ret]

\* Descriptor::is_multipath
is_multipath(d) == Descriptor_for_any_key(d, 0, "is_multipath").ret

\* Descriptor::has_wildcard
has_wildcard(d) == Descriptor_for_any_key(d, 0, "has_wildcard").ret

\* ------------------------------------------------------------------ multipath

\* Descriptor::multipath_length_mismatch
multipath_length_mismatch(d) ==
  Descriptor_for_each_key(d, SinglePath, "multipath_length_mismatch", FALSE).st = LenMismatch

\* ------------------------------------------------------------------ TranslatePk

MapSeq(ks, g) == [i \in DOMAIN ks |-> g[ks[i]]]

ms_map(ms, g) == [ms EXCEPT !.ks = MapSeq(ms.ks, g)]

sm_map(sm, g) == [sm EXCEPT !.ks = MapSeq(sm.ks, g)]

wsh_inner_map(w, g) ==
  IF w.t = "SortedMulti" THEN WshSortedMulti(sm_map(w.sm, g)) ELSE WshMs(ms_map(w.ms, g))

sh_inner_map(i, g) ==
  CASE i.t = "Wsh" -> ShWsh(wsh_inner_map(i.wsh, g))
    [] i.t = "Wpkh" -> ShWpkh(g[i.pk])
    [] i.t = "SortedMulti" -> ShSortedMulti(sm_map(i.sm, g))
    [] i.t = "Ms" -> ShMs(ms_map(i.ms, g))

taptree_map(t, g) ==
  IF t.t = "Leaf" THEN TapLeaf(ms_map(t.ms, g))
  ELSE TapBranch(TapLeaf(ms_map(t.l.ms, g)), TapLeaf(ms_map(t.r.ms, g)))

\* The descriptor with every key leaf k replaced by g[k]: same variant, same
\* shape.
MapKeys(d, g) ==
  CASE d.variant = "Bare" -> DBare(ms_map(d.ms, g))
    [] d.variant = "Pkh" -> DPkh(g[d.pk])
    [] d.variant = "Wpkh" -> DWpkh(g[d.pk])
    [] d.variant = "Sh" -> DSh(sh_inner_map(d.inner, g))
    [] d.variant = "Wsh" -> DWsh(wsh_inner_map(d.inner, g))
    [] d.variant = "Tr" ->
         DTr(g[d.pk], IF d.tree = <<>> THEN <<>> ELSE <<taptree_map(d.tree[1], g)>>)
    [] d.variant = "TrExt" ->
         DTrExt(g[d.pk], IF d.tree = <<>> THEN <<>> ELSE <<taptree_map(d.tree[1], g)>>)
    [] d.variant = "LegacyCSFSCov" -> DCov(g[d.pk], ms_map(d.ms, g))

KeySetOf(d) == {KeysOf(d)[i] : i \in DOMAIN KeysOf(d)}

\* impl TranslatePk for Descriptor; f maps each key leaf to the translator's
\* answer for it.  The first failing leaf decides the error.
translate_pk(d, f) ==
  LET ks == KeysOf(d) IN
  IF \E i \in DOMAIN ks : ~f[ks[i]].ok
  THEN LET i == CHOOSE i \in DOMAIN ks : ~f[ks[i]].ok /\ \A j \in 1..(i - 1) : f[ks[j]].ok
       IN Err(f[ks[i]].e)
  ELSE Ok(MapKeys(d, [k \in KeySetOf(d) |-> f[k].v]))

\* A Translator with state, as StrDescPubKeyTranslator: it counts its calls
\* and remembers the keys it was given; it fails at call number fail_at
\* (never when fail_at is 0).
Translator(fail_at) == [count |-> 0, fail_at |-> fail_at, seen |-> <<>>]

\* The key the translator gives for pk at its n-th call.
Translated(pk, n) == [kind |-> "Translated", from |-> pk, call |-> n]

\* Translator::pk: the answer and the translator afterwards.
Translator_pk(t, pk) ==
  [t |-> [t EXCEPT !.count = t.count + 1, !.seen = Append(t.seen, pk)],
   r |-> IF t.count + 1 = t.fail_at THEN Err("TranslatorError")
         ELSE Ok(Translated(pk, t.count + 1))]

\* The key leaves handed to the translator one after the other, every leaf
\* also after a failure.
RECURSIVE translate_keys_without_stop(_, _, _)
translate_keys_without_stop(keys, t, done) ==
  IF keys = <<>> THEN [t |-> t, r |-> Ok(done)]
  ELSE With(Translator_pk(t, Head(keys)),
         LAMBDA c :
           IF ~c.r.ok
           THEN [t |-> translate_keys_without_stop(Tail(keys), c.t, done).t, r |-> c.r]
           ELSE translate_keys_without_stop(Tail(keys), c.t, Append(done, c.r.v)))

\* translate_pk of the variant types: the key leaves handed to the
\* translator one after the other, `?` on every answer.
RECURSIVE translate_keys(_, _, _)
translate_keys(keys, t, done) ==
  IF keys = <<>> THEN [t |-> t, r |-> Ok(done)]
  ELSE With(Translator_pk(t, Head(keys)),
         LAMBDA c :
           IF ~c.r.ok THEN [t |-> c.t, r |-> c.r]
           ELSE translate_keys(Tail(keys), c.t, Append(done, c.r.v)))

\* The descriptor with its key leaves replaced, in order, by those of qs:
\* same variant, same shape.
ReplaceKeys(d, qs) ==
  CASE d.variant = "Bare" -> DBare([d.ms EXCEPT !.ks = qs])
    [] d.variant = "Pkh" -> DPkh(qs[1])
    [] d.variant = "Wpkh" -> DWpkh(qs[1])
    [] d.variant = "Wsh" ->
         DWsh(IF d.inner.t = "SortedMulti" THEN WshSortedMulti([d.inner.sm EXCEPT !.ks = qs])
              ELSE WshMs([d.inner.ms EXCEPT !.ks = qs]))
    [] d.variant = "Sh" ->
         DSh(CASE d.inner.t = "Wsh" ->
                    ShWsh(IF d.inner.wsh.t = "SortedMulti"
                          THEN WshSortedMulti([d.inner.wsh.sm EXCEPT !.ks = qs])
                          ELSE WshMs([d.inner.wsh.ms EXCEPT !.ks = qs]))
               [] d.inner.t = "Wpkh" -> ShWpkh(qs[1])
               [] d.inner.t = "SortedMulti" -> ShSortedMulti([d.inner.sm EXCEPT !.ks = qs])
               [] d.inner.t = "Ms" -> ShMs([d.inner.ms EXCEPT !.ks = qs]))
    [] d.variant \in {"Tr", "TrExt"} ->
         [d EXCEPT !.pk = qs[1],
                   !.tree = IF d.tree = <<>> THEN <<>>
                            ELSE IF d.tree[1].t = "Leaf"
                            THEN <<TapLeaf([d.tree[1].ms EXCEPT !.ks = Tail(qs)])>>
                            ELSE <<TapBranch(
                                     TapLeaf([d.tree[1].l.ms EXCEPT
                                                !.ks = SubSeq(qs, 2, 1 + Len(d.tree[1].l.ms.ks))]),
                                     TapLeaf([d.tree[1].r.ms EXCEPT
                                                !.ks = SubSeq(qs, 2 + Len(d.tree[1].l.ms.ks),
                                                              Len(qs))]))>>]
    [] d.variant = "LegacyCSFSCov" -> DCov(qs[1], [d.ms EXCEPT !.ks = Tail(qs)])

\* impl TranslatePk for Descriptor with a translator that has state: the
\* variant forwards to its own translate_pk and is wrapped again; t is the
\* translator afterwards.
translate_pk_with(d, t) ==
  With(translate_keys(KeysOf(d), t, <<>>),
    LAMBDA w : [t |-> w.t, r |-> MapOk(w.r, LAMBDA qs : ReplaceKeys(d, qs))])

\* An ExtParamTranslator with state, as StrExtTranslator: it counts its calls
\* and remembers the parameters it was given; it fails at every call from
\* call number fail_at on (never when fail_at is 0, on every input when
\* fail_at is 1).
ExtTranslator(fail_at) == [count |-> 0, fail_at |-> fail_at, seen |-> <<>>]

\* The parameter the translator gives for e at its n-th call.
TranslatedExt(e, n) == [ext_translated |-> e, call |-> n]

\* ExtParamTranslator::ext: the answer and the translator afterwards.
ExtTranslator_ext(t, e) ==
  [t |-> [t EXCEPT !.count = t.count + 1, !.seen = Append(t.seen, e)],
   r |-> IF t.fail_at > 0 /\ t.count + 1 >= t.fail_at THEN Err("TranslatorError")
         ELSE Ok(TranslatedExt(e, t.count + 1))]

\* The extension parameters of a miniscript, in order.
ms_ext_params(ms) == IF ms.t = "spk_eq" THEN <<ms.e>> ELSE <<>>

\* The extension parameters of a descriptor, in order: those of the leaves
\* of a TrExt tree, those of the miniscript of a covenant descriptor.
ExtParamsOf(d) ==
  CASE d.variant = "TrExt" ->
         IF d.tree = <<>> THEN <<>>
         ELSE IF d.tree[1].t = "Leaf" THEN ms_ext_params(d.tree[1].ms)
         ELSE ms_ext_params(d.tree[1].l.ms) \o ms_ext_params(d.tree[1].r.ms)
    [] d.variant = "LegacyCSFSCov" -> ms_ext_params(d.ms)
    [] OTHER -> <<>>

\* translate_ext of the variant types: the parameters handed to the
\* translator one after the other, `?` on every answer.
RECURSIVE translate_exts(_, _, _)
translate_exts(es, t, done) ==
  IF es = <<>> THEN [t |-> t, r |-> Ok(done)]
  ELSE With(ExtTranslator_ext(t, Head(es)),
         LAMBDA c :
           IF ~c.r.ok THEN [t |-> c.t, r |-> c.r]
           ELSE translate_exts(Tail(es), c.t, Append(done, c.r.v)))

\* The miniscript with its extension parameters replaced by those of es.
ms_replace_exts(ms, es) == IF ms.t = "spk_eq" THEN [ms EXCEPT !.e = es[1]] ELSE ms

\* The descriptor with its extension parameters replaced, in order, by
\* those of es: same variant, same shape, same keys.
ReplaceExts(d, es) ==
  CASE d.variant = "TrExt" ->
         [d EXCEPT !.tree =
            IF d.tree = <<>> THEN <<>>
            ELSE IF d.tree[1].t = "Leaf"
            THEN <<TapLeaf(ms_replace_exts(d.tree[1].ms, es))>>
            ELSE <<TapBranch(
                     TapLeaf(ms_replace_exts(d.tree[1].l.ms, es)),
                     TapLeaf(ms_replace_exts(d.tree[1].r.ms,
                               SubSeq(es, 1 + Len(ms_ext_params(d.tree[1].l.ms)), Len(es)))))>>]
    [] d.variant = "LegacyCSFSCov" -> DCov(d.pk, ms_replace_exts(d.ms, es))

\* translate_ext that wraps a translated Tr as TrExt.
translate_ext_rewrapping(d, t) ==
  IF d.variant \in {"TrExt", "LegacyCSFSCov"}
  THEN With(translate_exts(ExtParamsOf(d), t, <<>>),
         LAMBDA w : [t |-> w.t, r |-> MapOk(w.r, LAMBDA es : ReplaceExts(d, es))])
  ELSE [t |-> t, r |-> Ok(IF d.variant = "Tr" THEN [d EXCEPT !.variant = "TrExt"] ELSE d)]

\* impl TranslateExt for Descriptor: Bare, Pkh, Wpkh, Sh, Wsh and Tr are
\* cloned; TrExt and LegacyCSFSCov forward to their own translate_ext with
\* `?` and are wrapped again; t is the translator afterwards.
translate_ext(d, t) ==
  IF d.variant \in {"TrExt", "LegacyCSFSCov"}
  THEN With(translate_exts(ExtParamsOf(d), t, <<>>),
         LAMBDA w : [t |-> w.t, r |-> MapOk(w.r, LAMBDA es : ReplaceExts(d, es))])
  ELSE [t |-> t, r |-> Ok(d)]

\* IndexChoser(i).pk, i counted from 0.
IndexChoser_pk(i, pk) ==
  IF pk.kind \in {"Single", "XPub"} THEN Ok(pk)
  ELSE LET sk == into_single_keys(pk) IN
       IF i < Len(sk) THEN Ok(sk[i + 1]) ELSE Err("MultipathDescLenMismatch")

\* into_single_descriptors without the early return for a descriptor that
\* has no multipath key: the assertion on the gathered clones fails.
into_single_descriptors_no_early_return(d) ==
  With(Descriptor_for_any_key(d, 0, "into_single_descriptors"),
    LAMBDA g :
      IF g.st = 0 THEN Err("panic")
      ELSE With([i \in 1..g.st |->
                   translate_pk(d, [k \in KeySetOf(d) |-> IndexChoser_pk(i - 1, k)])],
             LAMBDA tr :
               IF \E i \in DOMAIN tr : ~tr[i].ok
               THEN tr[CHOOSE i \in DOMAIN tr : ~tr[i].ok /\ \A j \in 1..(i - 1) : tr[j].ok]
               ELSE Ok([i \in DOMAIN tr |-> tr[i].v])))

\* Descriptor::into_single_descriptors
into_single_descriptors(d) ==
  With(Descriptor_for_any_key(d, 0, "into_single_descriptors"),
    LAMBDA g :
      IF ~g.ret THEN Ok(<<d>>)
      ELSE IF g.st = 0 THEN Err("panic")
      ELSE With([i \in 1..g.st |->
                   translate_pk(d, [k \in KeySetOf(d) |-> IndexChoser_pk(i - 1, k)])],
             LAMBDA tr :
               IF \E i \in DOMAIN tr : ~tr[i].ok
               THEN tr[CHOOSE i \in DOMAIN tr : ~tr[i].ok /\ \A j \in 1..(i - 1) : tr[j].ok]
               ELSE Ok([i \in DOMAIN tr |-> tr[i].v])))

\* ------------------------------------------------------------------ parsing

\* Descriptor::from_tree
Descriptor_from_tree(top, kt) ==
  CASE top.name = Tok.el \o Tok.pkh /\ Len(top.args) = 1 -> MapOk(Pkh_from_tree(top, kt), DPkh)
    [] top.name = Tok.el \o Tok.wpkh /\ Len(top.args) = 1 -> MapOk(Wpkh_from_tree(top, kt), DWpkh)
    [] top.name = Tok.el \o Tok.sh /\ Len(top.args) = 1 -> MapOk(Sh_from_tree(top, kt), DSh)
    [] top.name = Tok.el \o Tok.covwsh /\ Len(top.args) = 2 ->
         MapOk(Cov_from_tree(top, kt), LAMBDA c : DCov(c.pk, c.ms))
    [] top.name = Tok.el \o Tok.wsh /\ Len(top.args) = 1 -> MapOk(Wsh_from_tree(top, kt), DWsh)
    [] top.name = Tok.el \o Tok.tr -> MapOk(Tr_from_tree(top, kt), LAMBDA t : DTr(t.pk, t.tree))
    [] OTHER -> MapOk(Bare_from_tree(top, kt), DBare)

\* from_str without the prefix test of line 1207.
from_str_any_prefix(s) == TRUE

\* from_str, line 1207: the Elements prefix.
from_str_has_prefix(s) == starts_with(s, ELMTS_STR)

\* The taproot branch with the two parsers in the other order.
from_str_taproot_ext_first(s, kt) ==
  With(Tr_from_str(s, TRUE, kt),
    LAMBDA a :
      IF a.ok THEN [r |-> Ok(DTrExt(a.v.pk, a.v.tree)), calls |-> <<"Tr<T>::from_str">>]
      ELSE [r |-> MapOk(Tr_from_str(s, FALSE, kt), LAMBDA b : DTr(b.pk, b.tree)),
            calls |-> <<"Tr<T>::from_str", "Tr<NoExt>::from_str">>])

\* from_str, lines 1215-1224: the extension-free parser first, the
\* extension-aware one only when it failed.
from_str_taproot(s, kt) ==
  With(Tr_from_str(s, FALSE, kt),
    LAMBDA a :
      IF a.ok THEN [r |-> Ok(DTr(a.v.pk, a.v.tree)), calls |-> <<"Tr<NoExt>::from_str">>]
      ELSE [r |-> MapOk(Tr_from_str(s, TRUE, kt), LAMBDA b : DTrExt(b.pk, b.tree)),
            calls |-> <<"Tr<NoExt>::from_str", "Tr<T>::from_str">>])

\* The generic branch without verify_checksum: the text after '#' is dropped
\* unread.
from_str_other_unverified(s, kt) ==
  With(Tree_from_str(BodyOf(s)),
    LAMBDA t :
      IF ~t.ok THEN [r |-> t, calls |-> <<"Tree::from_str">>]
      ELSE [r |-> Descriptor_from_tree(t.v, kt), calls |-> <<"Tree::from_str", "from_tree">>])

\* from_str, lines 1226-1228: checksum, expression tree, from_tree.
from_str_other(s, kt) ==
  With(verify_checksum(s),
    LAMBDA c :
      IF ~c.ok THEN [r |-> c, calls |-> <<"verify_checksum">>]
      ELSE With(Tree_from_str(c.v),
             LAMBDA t :
               IF ~t.ok THEN [r |-> t, calls |-> <<"verify_checksum", "Tree::from_str">>]
               ELSE [r |-> Descriptor_from_tree(t.v, kt),
                     calls |-> <<"verify_checksum", "Tree::from_str", "from_tree">>]))

\* from_str, lines 1231-1235: the multipath length check on the value desc
\* built by either branch; desc is kept beside the result returned.
from_str_checked(p) ==
  IF p.r.ok /\ multipath_length_mismatch(p.r.v)
  THEN [r |-> Err("MultipathDescLenMismatch"), calls |-> p.calls, desc |-> p.r]
  ELSE [r |-> p.r, calls |-> p.calls, desc |-> p.r]

\* impl FromStr for Descriptor.  r is the value returned, calls the taproot
\* and generic parsers invoked, in order, desc the value of the local desc.
Descriptor_from_str(s, kt) ==
  IF ~from_str_has_prefix(s)
  THEN [r |-> Err("BadDescriptor"), calls |-> <<>>, desc |-> Err("BadDescriptor")]
  ELSE from_str_checked(IF starts_with(s, ELMTS_STR \o Tok.tr) THEN from_str_taproot(s, kt)
                        ELSE from_str_other(s, kt))

\* ------------------------------------------------------------------ classification

\* The number of bytes of a character in UTF-8: the characters of a
\* descriptor are ASCII; "U+00E9" and "U+20AC" stand for a two-byte and a
\* three-byte character.
Utf8Width(c) == CASE c = "U+00E9" -> 2 [] c = "U+20AC" -> 3 [] OTHER -> 1

\* The number of characters that make up the first n bytes of s, counted
\* from i characters and b bytes on: -2 when s has fewer than n bytes, -1
\* when byte n lies inside a character.
RECURSIVE CharsIn(_, _, _, _)
CharsIn(s, n, i, b) ==
  IF b = n THEN i
  ELSE IF b > n THEN -1
  ELSE IF i = Len(s) THEN -2
  ELSE CharsIn(s, n, i + 1, b + Utf8Width(s[i + 1]))

\* s.len() >= n, the length in bytes.
len_at_least(s, n) == CharsIn(s, n, 0, 0) # -2

\* str::is_char_boundary
is_char_boundary(s, n) == CharsIn(s, n, 0, 0) >= 0

\* &s[0..n] where byte n is a character boundary.
Slice(s, n) == SubSeq(s, 1, CharsIn(s, n, 0, 0))

\* &s[0..n] where byte n is not a character boundary: the thread panics.
SlicePanic == [ok |-> FALSE, e |-> "panic: byte index is not a char boundary"]

\* One arm `s.len() >= n && &s[0..n] == prefix` of DescriptorType::from_str
\* and what follows it.
PrefixRule(s, n, prefix, ty, otherwise) ==
  IF ~len_at_least(s, n) THEN otherwise
  ELSE IF ~is_char_boundary(s, n) THEN SlicePanic
  ELSE IF Slice(s, n) = prefix THEN Ok(ty)
  ELSE otherwise

\* impl FromStr for DescriptorType: ordered prefix matching, the rules in the
\* order of the source.
DescriptorType_from_str(s) ==
  PrefixRule(s, 12, Tok.legacy_pegin, "LegacyPegin",
  PrefixRule(s, 5, Tok.pegin, "Pegin",
  PrefixRule(s, 3, Tok.pkh, "Pkh",
  PrefixRule(s, 4, Tok.wpkh, "Wpkh",
  PrefixRule(s, 6, Tok.sh \o Tok.open \o Tok.wsh, "ShWsh",
  PrefixRule(s, 7, Tok.sh \o Tok.open \o Tok.wpkh, "ShWpkh",
  PrefixRule(s, 14, Tok.sh \o Tok.open \o Tok.sortedmulti, "ShSortedMulti",
  PrefixRule(s, 18, Tok.sh \o Tok.open \o Tok.wsh \o Tok.open \o Tok.sortedmulti,
             "ShWshSortedMulti",
  PrefixRule(s, 2, Tok.sh, "Sh",
  PrefixRule(s, 15, Tok.wsh \o Tok.open \o Tok.sortedmulti, "WshSortedMulti",
  PrefixRule(s, 3, Tok.wsh, "Wsh",
  PrefixRule(s, 6, Tok.covwsh, "Cov",
  Ok("Bare")))))))))))))

\* DescriptorInfo::from_desc_str
DescriptorInfo_from_desc_str(s) ==
  AndThen(Descriptor_from_str(s, "String").r,
    LAMBDA d :
      AndThen(DescriptorType_from_str(s),
        LAMBDA ty :
          Ok([info |-> IF ty \in {"Pegin", "LegacyPegin"} THEN "Pegin" ELSE "Btc",
              has_secret |-> Descriptor_for_any_key(d, 0, "from_desc_str").ret,
              ty |-> ty])))

\* parse_key of parse_descriptor: a secret key gives its public key and is
\* remembered; anything else must be a public key.
parse_key(s) ==
  With(DescriptorSecretKey_from_str(s),
    LAMBDA sk : IF sk.ok THEN Ok([pk |-> to_public(sk.v), sk |-> <<sk.v>>])
                ELSE MapOk(key_from_str(s), LAMBDA pk : [pk |-> pk, sk |-> <<>>]))

\* Descriptor::parse_descriptor: from_str over String keys, then every key
\* translated by parse_key.  The result is the descriptor and the key map.
parse_descriptor(s) ==
  AndThen(Descriptor_from_str(s, "String").r,
    LAMBDA d :
      With([k \in KeySetOf(d) |-> parse_key(k.s)],
        LAMBDA f :
          With(translate_pk(d, [k \in KeySetOf(d) |-> MapOk(f[k], LAMBDA x : x.pk)]),
            LAMBDA t :
              IF ~t.ok THEN Err("Unexpected")
              ELSE Ok([desc |-> t.v,
                       key_map |-> {<<f[k].v.pk, f[k].v.sk[1]>> :
                                      k \in {x \in KeySetOf(d) : f[x].v.sk # <<>>}}]))))

\* key_to_string of to_string_with_secret: the secret key the map holds for
\* pk, written as text, else pk written as text.
secret_key_to_string(pk, key_map) ==
  IF \E e \in key_map : e[1] = pk
  THEN Ok(StrKey(<<(CHOOSE e \in key_map : e[1] = pk)[2].name>>))
  ELSE Ok(StrKey(key_to_string(pk)))

\* Descriptor::to_string_with_secret: every key translated by key_to_string,
\* then to_string of the descriptor over String keys.
to_string_with_secret(d, key_map) ==
  to_string(translate_pk(d, [k \in KeySetOf(d) |-> secret_key_to_string(k, key_map)]).v)

\* ------------------------------------------------------------------ derivation

\* A u32 derivation index, written as its top bit (hi, the hardened bit of a
\* child number) and its low 31 bits (lo); its value is hi * 2^31 + lo.
U32(hi, lo) == [hi |-> hi, lo |-> lo]

\* DefiniteDescriptorKey: a key without wildcard or multi-index step; child
\* holds the index that replaced the wildcard, if there was one.
DefiniteKey(k, child) == [kind |-> "Definite", key |-> k, child |-> child]

\* DescriptorPublicKey::at_derivation_index: nothing to do for a key without
\* wildcard; the (unhardened) wildcard becomes the normal child number index,
\* which no index >= 2^31 is; a multipath key has no definite form.
key_at_derivation_index(k, index) ==
  CASE k.kind = "Single" -> Ok(DefiniteKey(k, <<>>))
    [] k.kind = "MultiXPub" -> Err("MultiKey")
    [] k.kind = "XPub" ->
         IF ~k.wild THEN Ok(DefiniteKey(k, <<>>))
         ELSE IF index.hi # 0 THEN Err("HardenedChild")
         ELSE Ok(DefiniteKey([k EXCEPT !.wild = FALSE], <<index.lo>>))

\* Descriptor::at_derivation_index: translate_pk with the Derivator, whose pk
\* is pk.clone().at_derivation_index(index).
at_derivation_index(d, index) ==
  translate_pk(d, [k \in KeySetOf(d) |-> key_at_derivation_index(k, index)])

\* DefiniteDescriptorKey::derive_public_key: the raw key itself, or the key
\* at the end of the derivation path (no step of the paths here is hardened).
derive_public_key(pk) ==
  IF pk.key.kind = "Single" THEN Ok([kind |-> "PublicKey", raw |-> pk.key.name])
  ELSE Ok([kind |-> "PublicKey", xpub |-> pk.key.id, path |-> <<pk.key.path>> \o pk.child])

\* Descriptor<DefiniteDescriptorKey>::derived_descriptor: translate_pk with
\* the Derivator, whose pk is pk.derive_public_key(secp).
Definite_derived_descriptor(d) ==
  translate_pk(d, [k \in KeySetOf(d) |-> derive_public_key(k)])

\* derived_descriptor keeping index 0 whatever index is asked for.
derived_descriptor_index_ignored(d, index) ==
  AndThen(at_derivation_index(d, U32(0, 0)), Definite_derived_descriptor)

\* Descriptor<DescriptorPublicKey>::derived_descriptor:
\* self.at_derivation_index(index)?.derived_descriptor(secp)
derived_descriptor(d, index) ==
  AndThen(at_derivation_index(d, index), Definite_derived_descriptor)

\* ------------------------------------------------------------------ scripts

\* A Script is a sequence of opcodes and data pushes.  Hashes are kept
\* symbolic: the hash of x is a value that only names x.
Op(name) == [op |-> name]
Push(data) == [push |-> data]
Bytes(script) == [script |-> script]
hash160(x) == [hash160 |-> x]
sha256(x) == [sha256 |-> x]

\* The serialized bytes of a bitcoin::PublicKey, as a sequence of numbers, for
\* the lexicographic order sortedmulti uses.
key_bytes(pk) ==
  IF "raw" \in DOMAIN pk THEN <<0, IF pk.raw = "A" THEN 0 ELSE 1>>
  ELSE <<1, pk.xpub>> \o pk.path

RECURSIVE bytes_less(_, _)
bytes_less(a, b) ==
  IF b = <<>> THEN FALSE
  ELSE IF a = <<>> THEN TRUE
  ELSE IF a[1] # b[1] THEN a[1] < b[1]
  ELSE bytes_less(Tail(a), Tail(b))

\* The keys of a sortedmulti in the order of their serialization.
RECURSIVE sorted_keys(_)
sorted_keys(ks) ==
  IF Len(ks) <= 1 THEN ks
  ELSE LET m == CHOOSE i \in DOMAIN ks :
                  \A j \in DOMAIN ks : j = i \/ ~bytes_less(key_bytes(ks[j]), key_bytes(ks[i]))
       IN <<ks[m]>> \o sorted_keys(SubSeq(ks, 1, m - 1) \o SubSeq(ks, m + 1, Len(ks)))

p2pkh(pk) ==
  <<Op("OP_DUP"), Op("OP_HASH160"), Push(hash160(pk)), Op("OP_EQUALVERIFY"),
    Op("OP_CHECKSIG")>>

multi_script(n, ks) ==
  <<Push([num |-> n])>> \o [i \in DOMAIN ks |-> Push(ks[i])]
    \o <<Push([num |-> Len(ks)]), Op("OP_CHECKMULTISIG")>>

\* Miniscript::encode
ms_encode(ms) ==
  CASE ms.t = "pk" -> <<Push(ms.ks[1]), Op("OP_CHECKSIG")>>
    [] ms.t = "pkh" -> p2pkh(ms.ks[1])
    [] ms.t = "multi" -> multi_script(ms.n, ms.ks)
    [] ms.t = "ver_eq" -> <<Op("OP_INSPECTVERSION"), Push([u32 |-> ms.n]), Op("OP_EQUAL")>>
    [] ms.t = "spk_eq" ->
         <<Op("OP_PUSHCURRENTINPUTINDEX"), Op("OP_INSPECTINPUTSCRIPTPUBKEY"),
           Push([spk |-> ms.e]), Op("OP_EQUAL")>>
    [] ms.t = "true" -> <<Op("OP_1")>>
    [] ms.t = "false" -> <<Op("OP_0")>>

\* SortedMultiVec::encode
sortedmulti_encode(sm) == multi_script(sm.n, sorted_keys(sm.ks))

p2wpkh(pk) == <<Op("OP_0"), Push(hash160(pk))>>

\* Script::to_v0_p2wsh
to_v0_p2wsh(script) == <<Op("OP_0"), Push(sha256(Bytes(script)))>>

\* Script::to_p2sh
to_p2sh(script) == <<Op("OP_HASH160"), Push(hash160(Bytes(script))), Op("OP_EQUAL")>>

\* Wsh::inner_script, the witness script.
wsh_inner_script(w) ==
  IF w.t = "SortedMulti" THEN sortedmulti_encode(w.sm) ELSE ms_encode(w.ms)

\* Sh::inner_script, the redeem script.
sh_inner_script(i) ==
  CASE i.t = "Wsh" -> to_v0_p2wsh(wsh_inner_script(i.wsh))
    [] i.t = "Wpkh" -> p2wpkh(i.pk)
    [] i.t = "SortedMulti" -> sortedmulti_encode(i.sm)
    [] i.t = "Ms" -> ms_encode(i.ms)

\* LegacyCSFSCov::inner_script (the covenant script): the covenant prelude
\* checking the signature of pk over the transaction, then the miniscript.
cov_inner_script(d) ==
  <<Op("COV_PRELUDE"), Push(d.pk), Op("OP_CHECKSIGFROMSTACK")>> \o ms_encode(d.ms)

\* The leaf scripts of a taproot tree with their positions.
tap_leaves(tree) ==
  IF tree = <<>> THEN <<>>
  ELSE IF tree[1].t = "Leaf" THEN <<ms_encode(tree[1].ms)>>
  ELSE <<ms_encode(tree[1].l.ms), ms_encode(tree[1].r.ms)>>

\* script_pubkey of the variant types.
variant_script_pubkey(d) ==
  CASE d.variant = "Bare" -> ms_encode(d.ms)
    [] d.variant = "Pkh" -> p2pkh(d.pk)
    [] d.variant = "Wpkh" -> p2wpkh(d.pk)
    [] d.variant = "Wsh" -> to_v0_p2wsh(wsh_inner_script(d.inner))
    [] d.variant = "Sh" -> to_p2sh(sh_inner_script(d.inner))
    [] d.variant = "LegacyCSFSCov" -> to_v0_p2wsh(cov_inner_script(d))
    [] d.variant \in {"Tr", "TrExt"} ->
         <<Op("OP_1"), Push([tweaked |-> d.pk, leaves |-> tap_leaves(d.tree)])>>

\* Descriptor::script_pubkey: every variant forwards to its own script_pubkey.
script_pubkey(d) == variant_script_pubkey(d)

\* address of the variant types (none for Bare): the address of the output
\* script under params, blinded when a blinding key is given.
variant_address(d, blinder, params) ==
  [script_pubkey |-> variant_script_pubkey(d), blinding_pubkey |-> blinder, params |-> params]

\* Descriptor::address
address(d, params) ==
  IF d.variant = "Bare" THEN Err("BareDescriptorAddr")
  ELSE Ok(variant_address(d, None, params))

\* blinded_address dropping the blinding key.
blinded_address_unblinded(d, blinder, params) == address(d, params)

\* Descriptor::blinded_address
blinded_address(d, blinder, params) ==
  IF d.variant = "Bare" THEN Err("BareDescriptorAddr")
  ELSE Ok(variant_address(d, Some(blinder), params))

\* Sh::unsigned_script_sig: the push of the witness program for sh(wsh) and
\* sh(wpkh), nothing for a plain P2SH script.
sh_unsigned_script_sig(i) ==
  CASE i.t = "Wsh" -> <<Push(Bytes(to_v0_p2wsh(wsh_inner_script(i.wsh))))>>
    [] i.t = "Wpkh" -> <<Push(Bytes(p2wpkh(i.pk)))>>
    [] i.t \in {"SortedMulti", "Ms"} -> <<>>

\* unsigned_script_sig answering the empty script for every descriptor.
unsigned_script_sig_always_empty(d) == <<>>

\* Descriptor::unsigned_script_sig
unsigned_script_sig(d) ==
  IF d.variant = "Sh" THEN sh_unsigned_script_sig(d.inner) ELSE <<>>

\* explicit_script answering the output script for taproot as well.
explicit_script_for_taproot_too(d) ==
  Ok(CASE d.variant = "Wsh" -> wsh_inner_script(d.inner)
       [] d.variant = "Sh" -> sh_inner_script(d.inner)
       [] d.variant = "LegacyCSFSCov" -> cov_inner_script(d)
       [] OTHER -> variant_script_pubkey(d))

\* Descriptor::explicit_script
explicit_script(d) ==
  CASE d.variant \in {"Bare", "Pkh", "Wpkh"} -> Ok(variant_script_pubkey(d))
    [] d.variant = "Wsh" -> Ok(wsh_inner_script(d.inner))
    [] d.variant = "Sh" -> Ok(sh_inner_script(d.inner))
    [] d.variant \in {"Tr", "TrExt"} -> Err("TrNoScriptCode")
    [] d.variant = "LegacyCSFSCov" -> Ok(cov_inner_script(d))

\* ecdsa_sighash_script_code of the variant types: the script itself, the
\* witness script, or the P2PKH script of the key of a wpkh.
variant_ecdsa_sighash_script_code(d) ==
  CASE d.variant \in {"Bare", "Pkh"} -> variant_script_pubkey(d)
    [] d.variant = "Wpkh" -> p2pkh(d.pk)
    [] d.variant = "Wsh" -> wsh_inner_script(d.inner)
    [] d.variant = "Sh" ->
         (CASE d.inner.t = "Wsh" -> wsh_inner_script(d.inner.wsh)
            [] d.inner.t = "Wpkh" -> p2pkh(d.inner.pk)
            [] OTHER -> sh_inner_script(d.inner))
    [] d.variant = "LegacyCSFSCov" -> cov_inner_script(d)

\* Descriptor::script_code
script_code(d) ==
  IF d.variant \in {"Tr", "TrExt"} THEN Err("TrNoScriptCode")
  ELSE Ok(variant_ecdsa_sighash_script_code(d))

\* ------------------------------------------------------------------ satisfaction

\* Witness stack elements: a signature by a key, a key, nothing.
Sig(pk) == [sig |-> pk]
EmptyElement == [empty |-> TRUE]

\* A Satisfier: the keys it has signatures for, the version of the spending
\* transaction, and whether it can supply the covenant's transaction items.
Satisfier(sigs, version, tx) == [sigs |-> sigs, version |-> version, tx |-> tx]

\* The stack satisfying a script term with the signatures at hand.
ms_satisfy(ms, sat) ==
  CASE ms.t = "pk" ->
         IF ms.ks[1] \in sat.sigs THEN Ok(<<Sig(ms.ks[1])>>) ELSE Err("CouldNotSatisfy")
    [] ms.t = "pkh" ->
         IF ms.ks[1] \in sat.sigs THEN Ok(<<Sig(ms.ks[1]), ms.ks[1]>>)
         ELSE Err("CouldNotSatisfy")
    [] ms.t = "multi" ->
         With(SelectSeq(ms.ks, LAMBDA k : k \in sat.sigs),
           LAMBDA signers :
             IF Len(signers) < ms.n THEN Err("CouldNotSatisfy")
             ELSE Ok(<<EmptyElement>> \o [i \in 1..ms.n |-> Sig(signers[i])]))
    [] ms.t = "ver_eq" ->
         IF sat.version = Some(ms.n) THEN Ok(<<>>) ELSE Err("CouldNotSatisfy")
    [] ms.t = "spk_eq" -> IF sat.tx THEN Ok(<<>>) ELSE Err("CouldNotSatisfy")
    [] ms.t = "true" -> Ok(<<>>)
    [] ms.t = "false" -> Err("CouldNotSatisfy")

sortedmulti_satisfy(sm, sat) == ms_satisfy(MsMulti(sm.n, sorted_keys(sm.ks)), sat)

\* A stack written as the pushes of a scriptSig.
pushes(stack) == [i \in DOMAIN stack |-> Push(stack[i])]

Satisfaction(witness, script_sig) == [witness |-> witness, script_sig |-> script_sig]

wpkh_satisfaction(pk, sat, script_sig) ==
  IF pk \in sat.sigs THEN Ok(Satisfaction(<<Sig(pk), pk>>, script_sig)) ELSE Err("MissingSig")

wsh_satisfaction(w, sat, script_sig) ==
  MapOk(IF w.t = "SortedMulti" THEN sortedmulti_satisfy(w.sm, sat) ELSE ms_satisfy(w.ms, sat),
        LAMBDA stack : Satisfaction(Append(stack, Bytes(wsh_inner_script(w))), script_sig))

\* Tr::get_satisfaction: the key spend when the internal key signs, else the
\* first leaf that can be satisfied, with its script and control block.
tr_satisfaction(d, sat) ==
  IF d.pk \in sat.sigs THEN Ok(Satisfaction(<<Sig(d.pk)>>, <<>>))
  ELSE With(IF d.tree = <<>> THEN <<>>
            ELSE IF d.tree[1].t = "Leaf" THEN <<d.tree[1].ms>>
            ELSE <<d.tree[1].l.ms, d.tree[1].r.ms>>,
         LAMBDA leaves :
           With(SelectSeq(leaves, LAMBDA ms : ms_satisfy(ms, sat).ok),
             LAMBDA open :
               IF open = <<>> THEN Err("CouldNotSatisfyTr")
               ELSE Ok(Satisfaction(
                         ms_satisfy(open[1], sat).v
                           \o <<Bytes(ms_encode(open[1])),
                                [control_block |-> d.pk,
                                 depth |-> IF d.tree[1].t = "Leaf" THEN 0 ELSE 1]>>,
                         <<>>))))

\* get_satisfaction of the variant types.
variant_get_satisfaction(d, sat) ==
  CASE d.variant = "Bare" ->
         MapOk(ms_satisfy(d.ms, sat), LAMBDA stack : Satisfaction(<<>>, pushes(stack)))
    [] d.variant = "Pkh" ->
         IF d.pk \in sat.sigs THEN Ok(Satisfaction(<<>>, pushes(<<Sig(d.pk), d.pk>>)))
         ELSE Err("MissingSig")
    [] d.variant = "Wpkh" -> wpkh_satisfaction(d.pk, sat, <<>>)
    [] d.variant = "Wsh" -> wsh_satisfaction(d.inner, sat, <<>>)
    [] d.variant = "Sh" ->
         (CASE d.inner.t = "Wsh" ->
                 wsh_satisfaction(d.inner.wsh, sat, sh_unsigned_script_sig(d.inner))
            [] d.inner.t = "Wpkh" ->
                 wpkh_satisfaction(d.inner.pk, sat, sh_unsigned_script_sig(d.inner))
            [] d.inner.t = "SortedMulti" ->
                 MapOk(sortedmulti_satisfy(d.inner.sm, sat),
                       LAMBDA stack :
                         Satisfaction(<<>>, pushes(Append(stack, Bytes(sh_inner_script(d.inner))))))
            [] d.inner.t = "Ms" ->
                 MapOk(ms_satisfy(d.inner.ms, sat),
                       LAMBDA stack :
                         Satisfaction(<<>>, pushes(Append(stack, Bytes(sh_inner_script(d.inner)))))))
    [] d.variant \in {"Tr", "TrExt"} -> tr_satisfaction(d, sat)
    [] d.variant = "LegacyCSFSCov" ->
         IF ~sat.tx \/ ~sat.version.some \/ d.pk \notin sat.sigs THEN Err("CovError")
         ELSE MapOk(ms_satisfy(d.ms, sat),
                    LAMBDA stack :
                      Satisfaction(<<Sig(d.pk), [covenant_items |-> sat.version]>> \o stack
                                     \o <<Bytes(cov_inner_script(d))>>, <<>>))

\* Descriptor::get_satisfaction: every variant forwards to its own.
get_satisfaction(d, sat) == variant_get_satisfaction(d, sat)

\* satisfy emptying the input before it asks for the satisfaction.
satisfy_clearing_first(d, input, sat) ==
  With(get_satisfaction(d, sat),
    LAMBDA s :
      IF ~s.ok THEN [r |-> s, txin |-> [input EXCEPT !.witness = <<>>, !.script_sig = <<>>]]
      ELSE [r |-> Ok("()"),
            txin |-> [input EXCEPT !.witness = s.v.witness, !.script_sig = s.v.script_sig]])

\* satisfy writing the witness only.
satisfy_without_script_sig(d, input, sat) ==
  With(get_satisfaction(d, sat),
    LAMBDA s :
      IF ~s.ok THEN [r |-> s, txin |-> input]
      ELSE [r |-> Ok("()"), txin |-> [input EXCEPT !.witness = s.v.witness]])

\* satisfy that appends the new witness to the one the input carries.
satisfy_appending(d, input, sat) ==
  With(get_satisfaction(d, sat),
    LAMBDA s :
      IF ~s.ok THEN [r |-> s, txin |-> input]
      ELSE [r |-> Ok("()"),
            txin |-> [input EXCEPT !.witness = input.witness \o s.v.witness,
                                   !.script_sig = s.v.script_sig]])

\* Descriptor::satisfy: the error of get_satisfaction with the input as it
\* was, or the witness and the scriptSig written into the input.
satisfy(d, input, sat) ==
  With(get_satisfaction(d, sat),
    LAMBDA s :
      IF ~s.ok THEN [r |-> s, txin |-> input]
      ELSE [r |-> Ok("()"),
            txin |-> [input EXCEPT !.witness = s.v.witness, !.script_sig = s.v.script_sig]])

\* ------------------------------------------------------------------ weights

\* The length of the compact-size encoding of n.
varint_len(n) == IF n < 253 THEN 1 ELSE 3

\* script::push_opcode_size
push_opcode_size(n) == IF n < 76 THEN 1 ELSE IF n < 256 THEN 2 ELSE 3

\* The script context of a descriptor: keys and signatures are x-only keys
\* and Schnorr signatures under taproot, compressed keys and ECDSA
\* signatures elsewhere.
CtxOf(d) == IF d.variant \in {"Tr", "TrExt"} THEN "Tap" ELSE "Segwitv0"

\* The bytes of a signature with its sighash byte, of a key.
sig_len(ctx) == IF ctx = "Tap" THEN 65 ELSE 72
key_len(ctx) == IF ctx = "Tap" THEN 32 ELSE 33

\* The bytes of a stack element or of pushed data, and of a script.
RECURSIVE data_size(_, _)
RECURSIVE script_size(_, _)
data_size(x, ctx) ==
  CASE "script" \in DOMAIN x -> script_size(x.script, ctx)
    [] "sig" \in DOMAIN x -> sig_len(ctx)
    [] "kind" \in DOMAIN x -> key_len(ctx)
    [] "hash160" \in DOMAIN x -> 20
    [] "sha256" \in DOMAIN x -> 32
    [] "tweaked" \in DOMAIN x -> 32
    [] "u32" \in DOMAIN x -> 4
    [] "spk" \in DOMAIN x -> 32
    [] "empty" \in DOMAIN x -> 0
    [] "control_block" \in DOMAIN x -> 33 + 32 * x.depth
    [] "covenant_items" \in DOMAIN x -> 275

script_size(script, ctx) ==
  IF script = <<>> THEN 0
  ELSE script_size(Tail(script), ctx)
       + (IF "op" \in DOMAIN script[1] \/ "num" \in DOMAIN script[1].push THEN 1
          ELSE push_opcode_size(data_size(script[1].push, ctx))
               + data_size(script[1].push, ctx))

\* The bytes of the elements of a witness stack, each with its length prefix.
RECURSIVE stack_size(_, _)
stack_size(stack, ctx) ==
  IF stack = <<>> THEN 0
  ELSE stack_size(Tail(stack), ctx)
       + varint_len(data_size(stack[1], ctx)) + data_size(stack[1], ctx)

\* What a (witness, scriptSig) pair adds to the weight of an input that had
\* neither: the scriptSig counts four times, the witness once.
satisfaction_weight(s, ctx) ==
  4 * (varint_len(script_size(s.script_sig, ctx)) - varint_len(0)
       + script_size(s.script_sig, ctx))
  + varint_len(Len(s.witness)) - varint_len(0) + stack_size(s.witness, ctx)

\* Miniscript::max_satisfaction_size: signatures of 73 bytes (66 under
\* taproot) with their push; no size for a term that cannot be satisfied.
ms_max_satisfaction_size(ms, ctx) ==
  CASE ms.t = "pk" -> Ok(1 + sig_len(ctx))
    [] ms.t = "pkh" -> Ok(1 + sig_len(ctx) + 1 + key_len(ctx))
    [] ms.t = "multi" -> Ok(1 + ms.n * (1 + sig_len(ctx)))
    [] ms.t \in {"ver_eq", "spk_eq", "true"} -> Ok(0)
    [] ms.t = "false" -> Err("ImpossibleSatisfaction")

\* Miniscript::max_satisfaction_witness_elements: the script itself counts.
ms_max_satisfaction_witness_elements(ms) ==
  CASE ms.t = "pk" -> Ok(2)
    [] ms.t = "pkh" -> Ok(3)
    [] ms.t = "multi" -> Ok(ms.n + 2)
    [] ms.t \in {"ver_eq", "spk_eq", "true"} -> Ok(1)
    [] ms.t = "false" -> Err("ImpossibleSatisfaction")

\* Wsh::max_weight_to_satisfy; a sortedmulti weighs as the multi of its keys.
wsh_max_weight_to_satisfy(w) ==
  With(IF w.t = "SortedMulti" THEN MsMulti(w.sm.n, w.sm.ks) ELSE w.ms,
    LAMBDA ms :
      AndThen(ms_max_satisfaction_witness_elements(ms),
        LAMBDA elems :
          MapOk(ms_max_satisfaction_size(ms, "Segwitv0"),
            LAMBDA size :
              varint_len(elems) - varint_len(0)
              + varint_len(script_size(ms_encode(ms), "Segwitv0"))
              + script_size(ms_encode(ms), "Segwitv0") + size)))

\* Wpkh::max_weight_to_satisfy
wpkh_max_weight_to_satisfy == varint_len(2) - varint_len(0) + 73 + 34

\* The weight of a scriptSig of the given size.
script_sig_weight(size) == 4 * (varint_len(size) - varint_len(0) + size)

\* Sh::max_weight_to_satisfy
sh_max_weight_to_satisfy(i) ==
  CASE i.t = "Wsh" ->
         MapOk(wsh_max_weight_to_satisfy(i.wsh), LAMBDA w : script_sig_weight(1 + 1 + 1 + 32) + w)
    [] i.t = "Wpkh" -> Ok(script_sig_weight(1 + 1 + 1 + 20) + wpkh_max_weight_to_satisfy)
    [] i.t \in {"SortedMulti", "Ms"} ->
         With(IF i.t = "SortedMulti" THEN MsMulti(i.sm.n, i.sm.ks) ELSE i.ms,
           LAMBDA ms :
             MapOk(ms_max_satisfaction_size(ms, "Legacy"),
               LAMBDA size :
                 script_sig_weight(push_opcode_size(script_size(ms_encode(ms), "Legacy"))
                                   + script_size(ms_encode(ms), "Legacy") + size)))

\* The leaves of a taproot tree with their depths.
tap_leaves_with_depth(tree) ==
  IF tree = <<>> THEN {}
  ELSE IF tree[1].t = "Leaf" THEN {[depth |-> 0, ms |-> tree[1].ms]}
  ELSE {[depth |-> 1, ms |-> tree[1].l.ms], [depth |-> 1, ms |-> tree[1].r.ms]}

\* The weight of the script-path spend through one leaf.
tap_leaf_weight(leaf) ==
  varint_len(ms_max_satisfaction_witness_elements(leaf.ms).v + 1) - varint_len(0)
  + ms_max_satisfaction_size(leaf.ms, "Tap").v
  + varint_len(script_size(ms_encode(leaf.ms), "Tap")) + script_size(ms_encode(leaf.ms), "Tap")
  + varint_len(33 + 32 * leaf.depth) + 33 + 32 * leaf.depth

\* Tr::max_weight_to_satisfy: the key spend when there is no tree, else the
\* heaviest of the leaves that have a satisfaction size.
tr_max_weight_to_satisfy(d) ==
  IF d.tree = <<>> THEN Ok(varint_len(1) - varint_len(0) + 1 + 65)
  ELSE With({tap_leaf_weight(leaf) :
               leaf \in {l \in tap_leaves_with_depth(d.tree) :
                           ms_max_satisfaction_size(l.ms, "Tap").ok}},
         LAMBDA weights :
           IF weights = {} THEN Err("ImpossibleSatisfaction")
           ELSE Ok(CHOOSE w \in weights : \A v \in weights : v <= w))

\* LegacyCSFSCov::max_satisfaction_weight, the older bound, which also
\* counts the length bytes of the scriptSig and of the witness stack.
cov_max_satisfaction_weight(d) ==
  AndThen(ms_max_satisfaction_witness_elements(d.ms),
    LAMBDA elems :
      MapOk(ms_max_satisfaction_size(d.ms, "Segwitv0"),
        LAMBDA size :
          4 + varint_len(elems + 2)
          + varint_len(script_size(cov_inner_script(d), "Segwitv0"))
          + script_size(cov_inner_script(d), "Segwitv0")
          + size + (1 + 72) + (3 + 275)))

\* Descriptor::max_weight_to_satisfy: every variant forwards to its own
\* max_weight_to_satisfy, the covenant to its max_satisfaction_weight.
max_weight_to_satisfy(d) ==
  CASE d.variant = "Bare" ->
         MapOk(ms_max_satisfaction_size(d.ms, "Legacy"), script_sig_weight)
    [] d.variant = "Pkh" -> Ok(script_sig_weight(73 + 34))
    [] d.variant = "Wpkh" -> Ok(wpkh_max_weight_to_satisfy)
    [] d.variant = "Wsh" -> wsh_max_weight_to_satisfy(d.inner)
    [] d.variant = "Sh" -> sh_max_weight_to_satisfy(d.inner)
    [] d.variant \in {"Tr", "TrExt"} -> tr_max_weight_to_satisfy(d)
    [] d.variant = "LegacyCSFSCov" -> cov_max_satisfaction_weight(d)

\* ------------------------------------------------------------------ search

\* Range<u32>: start..end, end excluded.
Range(start, end) == [start |-> start, end |-> end]

\* a < b and a + 1 on u32.
u32_less(a, b) == a.hi < b.hi \/ (a.hi = b.hi /\ a.lo < b.lo)
u32_succ(a) == IF a.lo = 2147483647 THEN U32(a.hi + 1, 0) ELSE U32(a.hi, a.lo + 1)

\* The for loop of find_derivation_index_for_spk from index i on; derived
\* lists the indexes handed to derived_descriptor so far.
RECURSIVE find_from(_, _, _, _, _)
find_from(d, spk, i, end, derived) ==
  IF ~u32_less(i, end) THEN [r |-> Ok(None), derived |-> derived]
  ELSE With(derived_descriptor(d, i),
         LAMBDA concrete :
           IF ~concrete.ok THEN [r |-> concrete, derived |-> Append(derived, i)]
           ELSE IF script_pubkey(concrete.v) = spk
           THEN [r |-> Ok(Some(<<i, concrete.v>>)), derived |-> Append(derived, i)]
           ELSE find_from(d, spk, u32_succ(i), end, Append(derived, i)))

\* find_derivation_index_for_spk searching the given range also for a
\* descriptor without wildcard.
find_derivation_index_for_spk_range_used(d, spk, range) ==
  find_from(d, spk, range.start, range.end, <<>>)

\* Descriptor::find_derivation_index_for_spk
find_derivation_index_for_spk(d, spk, range) ==
  IF has_wildcard(d) THEN find_from(d, spk, range.start, range.end, <<>>)
  ELSE find_from(d, spk, U32(0, 0), U32(0, 1), <<>>)

\* ------------------------------------------------------------------ inputs

SingleKeySet == {Single(n) : n \in SingleNames}
XPubKeySet == {XPub(1, 0, w) : w \in BOOLEAN}
MultiKeySet == {MultiXPub(id, [j \in 1..n |-> j - 1], FALSE) : id \in {2, 3}, n \in 2..MaxPaths}
KeySet == SingleKeySet \cup XPubKeySet \cup MultiKeySet
\* Keys that appear beside another key.
SecondKeySet == MultiKeySet \cup {Single("B")}
FirstOfThree == {Single("A"), MultiXPub(2, <<0, 1>>, FALSE)}

\* wsh(1), sh(1) and sh(wsh(1)): descriptors without any key.
KeylessDescriptors == {DWsh(WshMs(MsTrue)), DSh(ShMs(MsTrue)), DSh(ShWsh(WshMs(MsTrue)))}

\* sh(0), which no oracle can satisfy, and tr(K,0), whose only leaf no
\* oracle can satisfy.
FalseDescriptors == {DSh(ShMs(MsFalse)), DTr(Single("A"), <<TapLeaf(MsFalse)>>)}

\* wsh(multi(1,A,A)): one key at two leaves.
RepeatedKeyDescriptors == {DWsh(WshMs(MsMulti(1, <<Single("A"), Single("A")>>)))}

\* Descriptors with extension fragments that carry a parameter.
ExtParamDescriptors ==
  {DTrExt(Single("A"), <<TapLeaf(MsSpkEq(ExtParam(<<"S">>)))>>),
   DTrExt(Single("A"), <<TapBranch(TapLeaf(MsSpkEq(ExtParam(<<"S">>))),
                                   TapLeaf(MsSpkEq(ExtParam(<<"T">>))))>>),
   DCov(Single("B"), MsSpkEq(ExtParam(<<"S">>)))}

OneKeyDescriptors ==
  UNION {{DBare(MsPk(k)), DBare(MsPkh(k)), DPkh(k), DWpkh(k), DSh(ShWpkh(k)), DSh(ShMs(MsPk(k))),
          DSh(ShWsh(WshMs(MsPk(k)))), DWsh(WshMs(MsPk(k))), DWsh(WshMs(MsPkh(k))),
          DTr(k, <<>>), DTrExt(k, <<>>), DTrExt(k, <<TapLeaf(MsVerEq(1))>>),
          DCov(k, MsVerEq(1))} : k \in KeySet}

TwoKeyDescriptors ==
  UNION {{DBare(MsMulti(1, <<k, l>>)), DSh(ShMs(MsMulti(1, <<k, l>>))),
          DSh(ShSortedMulti(SortedMulti(1, <<k, l>>))),
          DSh(ShWsh(WshMs(MsMulti(2, <<k, l>>)))),
          DSh(ShWsh(WshSortedMulti(SortedMulti(2, <<k, l>>)))),
          DWsh(WshMs(MsMulti(1, <<k, l>>))), DWsh(WshSortedMulti(SortedMulti(1, <<k, l>>))),
          DTr(k, <<TapLeaf(MsPk(l))>>), DTrExt(k, <<TapLeaf(MsPk(l))>>),
          DCov(k, MsPk(l))} : <<k, l>> \in KeySet \X SecondKeySet}

ThreeKeyDescriptors ==
  UNION {{DTr(k, <<TapBranch(TapLeaf(MsPk(l)), TapLeaf(MsPkh(m)))>>),
          DTrExt(k, <<TapBranch(TapLeaf(MsPk(l)), TapLeaf(MsVerEq(1)))>>),
          DCov(k, MsMulti(1, <<l, m>>))}
         : <<k, l, m>> \in FirstOfThree \X SecondKeySet \X SecondKeySet}

\* Every descriptor the constructors (new_pk .. new_tr_ext, new_cov_wsh) are
\* given in the model.  The constructors do not compare path counts.
Descriptors ==
  KeylessDescriptors \cup FalseDescriptors \cup RepeatedKeyDescriptors \cup ExtParamDescriptors
    \cup OneKeyDescriptors \cup TwoKeyDescriptors
    \cup ThreeKeyDescriptors

NoDesc == [variant |-> "None"]
NoRes == Err("none")
\* No call with arguments made yet, no transaction input handed over yet.
NoArg == [op |-> "none"]
NoTxIn == [witness |-> <<>>, script_sig |-> <<>>, sequence |-> 0]

\* The first occurrence of `from` in s replaced by `to`; s when there is none.
ReplaceFirst(s, from, to) ==
  IF \E i \in 1..(Len(s) - Len(from) + 1) : SubSeq(s, i, i + Len(from) - 1) = from
  THEN LET i == CHOOSE i \in 1..(Len(s) - Len(from) + 1) :
                  /\ SubSeq(s, i, i + Len(from) - 1) = from
                  /\ \A j \in 1..(i - 1) : SubSeq(s, j, j + Len(from) - 1) # from
       IN SubSeq(s, 1, i - 1) \o to \o DropFirst(s, i + Len(from) - 1)
  ELSE s

\* str::replace: every occurrence of `from` in s replaced by `to`.
RECURSIVE ReplaceAll(_, _, _)
ReplaceAll(s, from, to) ==
  IF \E i \in 1..(Len(s) - Len(from) + 1) : SubSeq(s, i, i + Len(from) - 1) = from
  THEN LET i == CHOOSE i \in 1..(Len(s) - Len(from) + 1) :
                  /\ SubSeq(s, i, i + Len(from) - 1) = from
                  /\ \A j \in 1..(i - 1) : SubSeq(s, j, j + Len(from) - 1) # from
       IN SubSeq(s, 1, i - 1) \o to \o ReplaceAll(DropFirst(s, i + Len(from) - 1), from, to)
  ELSE s

\* The normalisation of the round-trip test of mod.rs: c:pk_k( is printed
\* as pk(, c:pk_h( as pkh(.
normalize_aliases(s) ==
  ReplaceAll(ReplaceAll(s, Tok.c_pk_k \o Tok.open, Tok.pk \o Tok.open),
             Tok.c_pk_h \o Tok.open, Tok.pkh \o Tok.open)

\* Another symbol of the checksum character set.
OtherSymbol(c) ==
  LET i == CHOOSE i \in DOMAIN CHECKSUM_CHARSET : CHECKSUM_CHARSET[i] = c
  IN CHECKSUM_CHARSET[(i % Len(CHECKSUM_CHARSET)) + 1]

\* The ways a suffix after '#' fails to be the checksum cs: one wrong
\* character (the first or the last), too short, too long, empty, a doubled '#'.
BadKinds == {"first", "last", "short", "long", "empty", "doubled"}

BadSuffix(cs, kind) ==
  CASE kind = "first" -> [cs EXCEPT ![1] = OtherSymbol(cs[1])]
    [] kind = "last" -> [cs EXCEPT ![Len(cs)] = OtherSymbol(cs[Len(cs)])]
    [] kind = "short" -> SubSeq(cs, 1, Len(cs) - 1)
    [] kind = "long" -> cs \o <<cs[1]>>
    [] kind = "empty" -> <<>>
    [] kind = "doubled" -> Tok.hash \o cs

\* The derivation indexes callers pass: the smallest, the largest below the
\* hardened boundary 2^31, the boundary itself and the largest u32.
Indexes == {U32(0, 0), U32(0, 1), U32(0, 2147483647), U32(1, 0), U32(1, 2147483647)}

\* The ranges callers search: empty, 0..1, 0..2, one that starts after 0, one
\* whose end is below its start, and one that crosses the hardened boundary.
Ranges ==
  {Range(U32(0, 0), U32(0, 0)), Range(U32(0, 0), U32(0, 1)), Range(U32(0, 0), U32(0, 2)),
   Range(U32(0, 1), U32(0, 3)), Range(U32(0, 2), U32(0, 1)),
   Range(U32(0, 2147483647), U32(1, 1))}

\* The script a caller looks for: the script of the descriptor derived at
\* index 0 or 1, or a script that belongs to no descriptor.
Targets == {"at 0", "at 1", "other"}

TargetScript(d, t) ==
  With(derived_descriptor(d, U32(0, IF t = "at 1" THEN 1 ELSE 0)),
    LAMBDA c : IF t = "other" \/ ~c.ok THEN <<Op("OP_RETURN")>> ELSE script_pubkey(c.v))

\* Address parameters and blinding keys given by callers.
AddressParams == {"ELEMENTS", "LIQUID"}
\* Satisfiers of a definite descriptor: signatures for all of its keys, for
\* its first key only, or for none; the version of the spending transaction
\* if it knows that transaction;
\* with or without the transaction items a covenant needs.
SatisfierKinds == {"all", "first", "none"}

Versions == {None, Some(1), Some(2)}

SatisfierFor(d, kind, version, tx) ==
  Satisfier(CASE kind = "all" -> KeySetOf(d)
              [] kind = "first" -> IF KeysOf(d) = <<>> THEN {} ELSE {KeysOf(d)[1]}
              [] kind = "none" -> {},
            version, tx)

\* Transaction inputs handed to satisfy: the default one, and one that
\* already carries a witness, a scriptSig and a sequence number.
TxIns == {NoTxIn,
          [witness |-> <<EmptyElement>>, script_sig |-> <<Op("OP_0")>>, sequence |-> 100]}

\* The descriptors of a second satisfy call on the same input: the one of
\* the first call (choice 0) or one of these.
SecondDescriptors ==
  <<DWpkh(Single("A")), DSh(ShWsh(WshMs(MsPk(Single("B")))))>>

Blinders == {"blinder"}

\* The byte offsets DescriptorType::from_str slices at go up to 18.
MaxOffset == 18

\* Beginnings of descriptor strings, one per rule and one that no rule
\* matches, each followed by arguments.
RawBodies ==
  {b \o Tok.open \o <<"1", ",", "A", ",", "B">> \o Tok.close :
     b \in {Tok.legacy_pegin, Tok.pegin, Tok.pkh, Tok.wpkh, Tok.covwsh, <<"p", "k">>,
            Tok.sh \o Tok.open \o Tok.wsh, Tok.sh \o Tok.open \o Tok.wpkh,
            Tok.sh \o Tok.open \o Tok.sortedmulti, Tok.wsh \o Tok.open \o Tok.sortedmulti,
            Tok.sh \o Tok.open \o Tok.wsh \o Tok.open \o Tok.sortedmulti}}

\* The strings handed to DescriptorType::from_str as they are: the first n
\* characters of a body, then nothing or a character of two or three
\* bytes, then the rest of the body or nothing.
RawStrings ==
  {SubSeq(b, 1, n) \o c \o (IF cut THEN <<>> ELSE DropFirst(b, n)) :
     <<b, n, c, cut>> \in {x \in RawBodies \X (0..MaxOffset) \X {<<>>, <<"U+00E9">>, <<"U+20AC">>}
                                  \X BOOLEAN : x[2] <= Len(x[1])}}

\* ------------------------------------------------------------------ state machine

\* The key maps handed to to_string_with_secret: the one parse_descriptor
\* returned, or an empty one.
KeyMapKinds == {"parsed", "empty"}

\* The call at which the translator fails: never, or at its first, second
\* or third call.
\* The closures without state handed to for_each_key and for_any_key.
KeyPreds == {"is_multipath", "has_wildcard"}

FailAt == 0..3

Init ==
  /\ pc = "start"
  /\ desc = NoDesc
  /\ str = <<>>
  /\ origin = "none"
  /\ res = NoRes
  /\ chosen = NoRes
  /\ calls = <<>>
  /\ outs = <<>>
  /\ arg = NoArg
  /\ txin = NoTxIn

\* A constructor call: new_pk, new_pkh, .., new_tr, new_tr_ext, new_cov_wsh.
New(d) ==
  /\ pc = "start"
  /\ pc' = "built"
  /\ desc' = d
  /\ UNCHANGED <<str, origin, res, chosen, calls, outs>>
  /\ UNCHANGED <<arg, txin>>

\* desc.to_string()
DisplayFmt ==
  /\ pc = "built"
  /\ pc' = "printed"
  /\ str' = to_string(desc)
  /\ origin' = "to_string"
  /\ UNCHANGED <<desc, res, chosen, calls, outs>>
  /\ UNCHANGED <<arg, txin>>

\* The caller passes the body alone.
GiveNoChecksum ==
  /\ pc = "printed"
  /\ pc' = "given"
  /\ str' = BodyOf(str)
  /\ origin' = "no_checksum"
  /\ UNCHANGED <<desc, res, chosen, calls, outs>>
  /\ UNCHANGED <<arg, txin>>

\* The caller passes the body with a suffix that is not its checksum.
GiveBadChecksum(kind) ==
  /\ pc = "printed"
  /\ pc' = "given"
  /\ str' = BodyOf(str) \o Tok.hash \o BadSuffix(ChecksumOf(str), kind)
  /\ origin' = "bad_checksum"
  /\ UNCHANGED <<desc, res, chosen, calls, outs>>
  /\ UNCHANGED <<arg, txin>>

\* The caller passes the descriptor without the "el" prefix, with the
\* checksum of that string or with none.
GiveNoPrefix(withsum) ==
  /\ pc = "printed"
  /\ pc' = "given"
  /\ str' = LET b == DropFirst(BodyOf(str), Len(ELMTS_STR))
            IN IF withsum THEN write_checksum(b) ELSE b
  /\ origin' = "no_prefix"
  /\ UNCHANGED <<desc, res, chosen, calls, outs>>
  /\ UNCHANGED <<arg, txin>>

\* The caller passes a pegin descriptor string: the federation descriptor in
\* Bitcoin form and the user descriptor, inside pegin( ) or legacy_pegin( ).
GivePegin(legacy) ==
  /\ pc = "printed"
  /\ pc' = "given"
  /\ str' = (IF legacy THEN Tok.legacy_pegin ELSE Tok.pegin) \o Tok.open
            \o DropFirst(BodyOf(str), Len(ELMTS_STR)) \o Tok.comma \o BodyOf(str)
            \o Tok.close
  /\ origin' = "pegin"
  /\ UNCHANGED <<desc, res, chosen, calls, outs>>
  /\ UNCHANGED <<arg, txin>>

\* The caller passes any string: the beginning of a descriptor, cut short
\* or with a character of more than one byte in it.
GiveRaw(s) ==
  /\ pc = "start"
  /\ pc' = "raw"
  /\ str' = s
  /\ origin' = "raw"
  /\ UNCHANGED <<desc, res, chosen, calls, outs>>
  /\ UNCHANGED <<arg, txin>>

\* The caller writes pk( as c:pk_k( or pkh( as c:pk_h(, without checksum.
GiveAlias(from, to) ==
  /\ pc = "printed"
  /\ ReplaceFirst(BodyOf(str), from, to) # BodyOf(str)
  /\ pc' = "given"
  /\ str' = ReplaceFirst(BodyOf(str), from, to)
  /\ origin' = "alias"
  /\ UNCHANGED <<desc, res, chosen, calls, outs>>
  /\ UNCHANGED <<arg, txin>>

\* The caller writes the first raw key A in its secret form, without checksum.
GiveSecret ==
  /\ pc = "printed"
  /\ ReplaceFirst(BodyOf(str), <<"A">>, <<"a">>) # BodyOf(str)
  /\ pc' = "given"
  /\ str' = ReplaceFirst(BodyOf(str), <<"A">>, <<"a">>)
  /\ origin' = "secret"
  /\ UNCHANGED <<desc, res, chosen, calls, outs>>
  /\ UNCHANGED <<arg, txin>>

\* Descriptor::from_str(str)
FromStr ==
  /\ pc \in {"printed", "given"}
  /\ pc' = "parsed"
  /\ LET p == Descriptor_from_str(str, "DescriptorPublicKey")
     IN res' = p.r /\ chosen' = p.desc /\ calls' = p.calls
  /\ UNCHANGED <<desc, str, origin, outs>>
  /\ UNCHANGED <<arg, txin>>

\* to_string() of the descriptor just parsed.
Reprint ==
  /\ pc = "parsed"
  /\ res.ok
  /\ pc' = "reprinted"
  /\ outs' = to_string(res.v)
  /\ UNCHANGED <<desc, str, origin, res, chosen, calls>>
  /\ UNCHANGED <<arg, txin>>

\* Descriptor::parse_descriptor(secp, str)
ParseDescriptor ==
  /\ pc \in {"printed", "given"}
  /\ pc' = "parsed_with_secrets"
  /\ res' = parse_descriptor(str)
  /\ UNCHANGED <<desc, str, origin, chosen, calls, outs>>
  /\ UNCHANGED <<arg, txin>>

\* to_string_with_secret of the descriptor parse_descriptor returned.
ToStringWithSecret(kind) ==
  /\ pc = "parsed_with_secrets"
  /\ res.ok
  /\ pc' = "with_secrets"
  /\ arg' = [op |-> "to_string_with_secret",
             key_map |-> IF kind = "parsed" THEN res.v.key_map ELSE {}]
  /\ outs' = to_string_with_secret(res.v.desc, IF kind = "parsed" THEN res.v.key_map ELSE {})
  /\ UNCHANGED <<desc, str, origin, res, chosen, calls, txin>>

\* desc.translate_pk(&mut translator)
TranslatePk(fail_at) ==
  /\ pc = "built"
  /\ pc' = "translated"
  /\ arg' = [op |-> "translate_pk", fail_at |-> fail_at]
  /\ res' = translate_pk_with(desc, Translator(fail_at)).r
  /\ calls' = translate_pk_with(desc, Translator(fail_at)).t.seen
  /\ UNCHANGED <<desc, str, origin, chosen, outs, txin>>

\* desc.translate_ext(&mut ext_trans)
TranslateExt(fail_at) ==
  /\ pc = "built"
  /\ pc' = "translated_ext"
  /\ arg' = [op |-> "translate_ext", fail_at |-> fail_at]
  /\ res' = translate_ext(desc, ExtTranslator(fail_at)).r
  /\ calls' = translate_ext(desc, ExtTranslator(fail_at)).t.seen
  /\ UNCHANGED <<desc, str, origin, chosen, outs, txin>>

\* DescriptorInfo::from_desc_str(str)
FromDescStr ==
  /\ pc \in {"printed", "given"}
  /\ pc' = "info"
  /\ res' = DescriptorInfo_from_desc_str(str)
  /\ UNCHANGED <<desc, str, origin, chosen, calls, outs>>
  /\ UNCHANGED <<arg, txin>>

\* desc.into_single_descriptors()
IntoSingleDescriptors ==
  /\ pc = "built"
  /\ pc' = "expanded"
  /\ res' = into_single_descriptors(desc)
  /\ UNCHANGED <<desc, str, origin, chosen, calls, outs>>
  /\ UNCHANGED <<arg, txin>>

\* DescriptorType::from_str(str)
TypeFromStr ==
  /\ pc \in {"printed", "given", "raw"}
  /\ pc' = "typed"
  /\ res' = DescriptorType_from_str(str)
  /\ UNCHANGED <<desc, str, origin, chosen, calls, outs>>
  /\ UNCHANGED <<arg, txin>>

\* ty.segwit_version(), ty the type of the descriptor built or the type
\* DescriptorType::from_str gave.
SegwitVersion ==
  /\ pc \in {"built", "typed"}
  /\ pc = "typed" => res.ok
  /\ pc' = "versioned"
  /\ arg' = [op |-> "segwit_version", ty |-> IF pc = "built" THEN desc_type(desc) ELSE res.v]
  /\ chosen' = segwit_version(IF pc = "built" THEN desc_type(desc) ELSE res.v)
  /\ UNCHANGED <<desc, str, origin, res, calls, outs, txin>>

\* desc.for_each_key(pred) or desc.for_any_key(pred), pred one of the
\* closures without state.
ForEachKey(pred, any) ==
  /\ pc = "built"
  /\ pc' = "walked"
  /\ arg' = [op |-> IF any THEN "for_any_key" ELSE "for_each_key", pred |-> pred]
  /\ chosen' = [ret |-> IF any THEN Descriptor_for_any_key(desc, 0, pred).ret
                        ELSE Descriptor_for_each_key(desc, 0, pred, FALSE).ret]
  /\ UNCHANGED <<desc, str, origin, res, calls, outs, txin>>

\* desc.at_derivation_index(index)
AtDerivationIndex(index) ==
  /\ pc = "built"
  /\ pc' = "at_index"
  /\ arg' = [op |-> "at_derivation_index", index |-> index]
  /\ res' = at_derivation_index(desc, index)
  /\ UNCHANGED <<desc, str, origin, chosen, calls, outs, txin>>

\* desc.derived_descriptor(secp, index)
DerivedDescriptor(index) ==
  /\ pc = "built"
  /\ pc' = "derived"
  /\ arg' = [op |-> "derived_descriptor", index |-> index]
  /\ res' = derived_descriptor(desc, index)
  /\ UNCHANGED <<desc, str, origin, chosen, calls, outs, txin>>

\* The same call once more; the first answer is kept in chosen.
DerivedDescriptorAgain ==
  /\ pc = "derived"
  /\ pc' = "derived_again"
  /\ chosen' = res
  /\ res' = derived_descriptor(desc, arg.index)
  /\ UNCHANGED <<desc, str, origin, calls, outs, arg, txin>>

\* desc.find_derivation_index_for_spk(secp, spk, range)
FindDerivationIndexForSpk(range, t) ==
  /\ pc = "built"
  /\ pc' = "searched"
  /\ arg' = [op |-> "find_derivation_index_for_spk", range |-> range,
             spk |-> TargetScript(desc, t)]
  /\ LET f == find_derivation_index_for_spk(desc, TargetScript(desc, t), range)
     IN res' = f.r /\ calls' = f.derived
  /\ UNCHANGED <<desc, str, origin, chosen, outs, txin>>

\* address(params) of the descriptor just derived.
Address(params) ==
  /\ pc = "derived"
  /\ res.ok
  /\ pc' = "addressed"
  /\ arg' = [op |-> "address", params |-> params, blinder |-> None]
  /\ outs' = address(res.v, params)
  /\ UNCHANGED <<desc, str, origin, res, chosen, calls, txin>>

\* blinded_address(blinder, params) of the descriptor just derived.
BlindedAddress(blinder, params) ==
  /\ pc = "derived"
  /\ res.ok
  /\ pc' = "addressed"
  /\ arg' = [op |-> "blinded_address", params |-> params, blinder |-> Some(blinder)]
  /\ outs' = blinded_address(res.v, blinder, params)
  /\ UNCHANGED <<desc, str, origin, res, chosen, calls, txin>>

\* explicit_script() of the descriptor just derived.
ExplicitScript ==
  /\ pc = "derived"
  /\ res.ok
  /\ pc' = "scripted"
  /\ arg' = [op |-> "explicit_script"]
  /\ outs' = explicit_script(res.v)
  /\ UNCHANGED <<desc, str, origin, res, chosen, calls, txin>>

\* script_code() of the descriptor just derived.
ScriptCode ==
  /\ pc = "derived"
  /\ res.ok
  /\ pc' = "scripted"
  /\ arg' = [op |-> "script_code"]
  /\ outs' = script_code(res.v)
  /\ UNCHANGED <<desc, str, origin, res, chosen, calls, txin>>

\* unsigned_script_sig() of the descriptor just derived.
UnsignedScriptSig ==
  /\ pc = "derived"
  /\ res.ok
  /\ pc' = "unsigned"
  /\ arg' = [op |-> "unsigned_script_sig"]
  /\ outs' = unsigned_script_sig(res.v)
  /\ UNCHANGED <<desc, str, origin, res, chosen, calls, txin>>

\* Descriptor::satisfy on a definite descriptor.
Satisfy(kind, version, tx, input) ==
  /\ pc = "derived"
  /\ res.ok
  /\ pc' = "satisfied"
  /\ arg' = [op |-> "satisfy", sat |-> SatisfierFor(res.v, kind, version, tx), txin |-> input]
  /\ outs' = satisfy(res.v, input, SatisfierFor(res.v, kind, version, tx)).r
  /\ txin' = satisfy(res.v, input, SatisfierFor(res.v, kind, version, tx)).txin
  /\ UNCHANGED <<desc, str, origin, res, chosen, calls>>

\* A second Descriptor::satisfy on the input the first call left, with the
\* same or another descriptor and an oracle that has every signature or
\* none.
SatisfyAgain(choice, kind) ==
  /\ pc = "satisfied"
  /\ pc' = "satisfied_again"
  /\ \E d \in {IF choice = 0 THEN res.v ELSE SecondDescriptors[choice]} :
       /\ chosen' = [d |-> d, sat |-> SatisfierFor(d, kind, arg.sat.version, arg.sat.tx),
                     txin |-> txin, first |-> outs]
       /\ outs' = satisfy(d, txin, SatisfierFor(d, kind, arg.sat.version, arg.sat.tx)).r
       /\ txin' = satisfy(d, txin, SatisfierFor(d, kind, arg.sat.version, arg.sat.tx)).txin
  /\ UNCHANGED <<desc, str, origin, res, calls, arg>>

\* Descriptor::max_weight_to_satisfy of the descriptor just satisfied.
MaxWeightToSatisfy ==
  /\ pc = "satisfied"
  /\ pc' = "weighed"
  /\ chosen' = max_weight_to_satisfy(res.v)
  /\ UNCHANGED <<desc, str, origin, res, calls, outs, arg, txin>>

Next ==
  \/ \E d \in Descriptors : New(d)
  \/ DisplayFmt
  \/ GiveNoChecksum
  \/ \E kind \in BadKinds : GiveBadChecksum(kind)
  \/ \E withsum \in BOOLEAN : GiveNoPrefix(withsum)
  \/ \E legacy \in BOOLEAN : GivePegin(legacy)
  \/ \E s \in RawStrings : GiveRaw(s)
  \/ GiveAlias(Tok.pk \o Tok.open, Tok.c_pk_k \o Tok.open)
  \/ GiveAlias(Tok.pkh \o Tok.open, Tok.c_pk_h \o Tok.open)
  \/ GiveSecret
  \/ FromStr
  \/ Reprint
  \/ ParseDescriptor
  \/ \E kind \in KeyMapKinds : ToStringWithSecret(kind)
  \/ \E fail_at \in FailAt : TranslatePk(fail_at)
  \/ \E fail_at \in FailAt : TranslateExt(fail_at)
  \/ FromDescStr
  \/ IntoSingleDescriptors
  \/ TypeFromStr
  \/ SegwitVersion
  \/ \E pred \in KeyPreds, any \in BOOLEAN : ForEachKey(pred, any)
  \/ \E index \in Indexes : AtDerivationIndex(index)
  \/ \E index \in Indexes : DerivedDescriptor(index)
  \/ DerivedDescriptorAgain
  \/ \E range \in Ranges, t \in Targets : FindDerivationIndexForSpk(range, t)
  \/ \E params \in AddressParams : Address(params)
  \/ \E blinder \in Blinders, params \in AddressParams : BlindedAddress(blinder, params)
  \/ ExplicitScript
  \/ ScriptCode
  \/ UnsignedScriptSig
  \/ \E kind \in SatisfierKinds, version \in Versions, tx \in BOOLEAN, input \in TxIns :
       Satisfy(kind, version, tx, input)
  \/ MaxWeightToSatisfy
  \/ \E choice \in 0..Len(SecondDescriptors), kind \in {"all", "none"} :
       SatisfyAgain(choice, kind)

Spec == Init /\ [][Next]_vars

\* ------------------------------------------------------------------ properties

DPK == "DescriptorPublicKey"

MultipathKeys(d) == {i \in DOMAIN KeysOf(d) : KeysOf(d)[i].kind = "MultiXPub"}

HasMultipathKey(d) == MultipathKeys(d) # {}

\* Two multipath key leaves of d have different numbers of paths.
PathCountsDiffer(d) ==
  \E i, j \in MultipathKeys(d) : Len(KeysOf(d)[i].paths) # Len(KeysOf(d)[j].paths)

\* The path count of the first multipath key leaf of d.
FirstPathCount(d) ==
  Len(KeysOf(d)[CHOOSE i \in MultipathKeys(d) : \A j \in MultipathKeys(d) : i <= j].paths)

\* d with every multipath key leaf replaced by its i-th single-path key
\* (i counted from 1), every other leaf unchanged.
Projection(d, i) ==
  MapKeys(d, [k \in KeySetOf(d) |-> IF k.kind = "MultiXPub" THEN into_single_keys(k)[i] ELSE k])

\* Some script of d uses an extension fragment.
UsesExtension(d) ==
  CASE d.variant \in {"Tr", "TrExt"} ->
         d.tree # <<>> /\ (IF d.tree[1].t = "Leaf" THEN ms_uses_ext(d.tree[1].ms)
                           ELSE ms_uses_ext(d.tree[1].l.ms) \/ ms_uses_ext(d.tree[1].r.ms))
    [] d.variant = "LegacyCSFSCov" -> ms_uses_ext(d.ms)
    [] OTHER -> FALSE

\* C1: round trip -- from_str(d.to_string()) succeeds and equals d, for a
\* TrExt descriptor built by new_tr_ext whose tree uses no extension.
\* Refuted: the string of such a descriptor is parsed as Descriptor::Tr.
C1_RoundTripTrExt ==
  (pc = "parsed" /\ origin = "to_string" /\ desc.variant = "TrExt" /\ ~UsesExtension(desc)
     /\ ~PathCountsDiffer(desc))
    => (res.ok /\ res.v = desc)

\* C2: a descriptor string in which two multipath keys have different numbers
\* of derivation paths is rejected by from_str with MultipathDescLenMismatch,
\* for every variant.  Refuted for the covenant variant.
C2_MismatchRejected ==
  (pc = "parsed" /\ origin \in {"to_string", "no_checksum"} /\ PathCountsDiffer(desc))
    => res = Err("MultipathDescLenMismatch")

\* C3: for a multipath descriptor whose multipath keys all have N paths,
\* into_single_descriptors returns Ok with exactly N descriptors, the i-th
\* being the descriptor with every multipath leaf replaced by its i-th
\* single-path key; none is multipath.  Refuted for the covenant variant.
C3_Expansion ==
  (pc = "expanded" /\ HasMultipathKey(desc) /\ ~PathCountsDiffer(desc))
    => /\ res = Ok([i \in 1..FirstPathCount(desc) |-> Projection(desc, i)])
       /\ \A i \in DOMAIN res.v : ~HasMultipathKey(res.v[i])

\* C4: when some multipath key leaf has a path count different from the
\* count of the first multipath leaf, into_single_descriptors returns
\* Err(MultipathDescLenMismatch).  Refuted: a later leaf with more paths
\* gives Ok, its surplus paths dropped.
C4_MismatchIsError ==
  (pc = "expanded" /\ PathCountsDiffer(desc)) => res = Err("MultipathDescLenMismatch")

\* C5: a descriptor without multipath key is returned by
\* into_single_descriptors as the one element of the sequence.
C5_NotMultipathUnchanged ==
  (pc = "expanded" /\ ~HasMultipathKey(desc)) => res = Ok(<<desc>>)

\* C5: reached with a descriptor that holds an extended key with one path.
C5_Witness ==
  /\ pc = "expanded"
  /\ ~HasMultipathKey(desc)
  /\ \E i \in DOMAIN KeysOf(desc) : KeysOf(desc)[i].kind = "XPub"
  /\ res = Ok(<<desc>>)

\* to_string() is the body, '#', and the 8 symbols of the checksum of the body.
EmitsChecksum ==
  pc = "printed" =>
    /\ BodyOf(str) = to_string_no_chksum(desc)
    /\ Len(ChecksumOf(str)) = CHECKSUM_LEN
    /\ desc_checksum(BodyOf(str)) = Ok(ChecksumOf(str))
    /\ str = BodyOf(str) \o Tok.hash \o ChecksumOf(str)

\* C6, as amended: to_string() is the body followed by '#' and the 8-symbol
\* checksum of that body; a string without checksum that the parser accepts
\* serialises to its body with the aliases c:pk_k( and c:pk_h( written as
\* pk( and pkh(, followed by the checksum of that normalised body.
C6_ChecksumEmitted ==
  /\ EmitsChecksum
  /\ (pc = "reprinted" /\ FirstOf(str, {"#"}) = 0)
       => outs = write_checksum(normalize_aliases(str))

\* C6: an accepted string in alias form has been serialised.
C6_Witness ==
  /\ pc = "reprinted"
  /\ origin = "alias"
  /\ BodyOf(outs) # str
  /\ outs = write_checksum(normalize_aliases(str))

\* C6, as stated: ... serialises to the same body with the checksum.
C6_SameBody ==
  /\ EmitsChecksum
  /\ (pc = "reprinted" /\ FirstOf(str, {"#"}) = 0) => outs = write_checksum(str)

\* C7: a body followed by '#' and a suffix that is not its checksum (one
\* wrong symbol, too short, too long, empty, a doubled '#') fails with
\* BadDescriptor, through from_str and through parse_descriptor.
C7_BadChecksumRejected ==
  (pc \in {"parsed", "parsed_with_secrets"} /\ origin = "bad_checksum")
    => res = Err("BadDescriptor")

\* C7: a taproot body with a doubled '#' went through parse_descriptor.
C7_Witness ==
  /\ pc = "parsed_with_secrets"
  /\ origin = "bad_checksum"
  /\ desc.variant = "Tr"
  /\ ChecksumOf(str) # <<>> /\ ChecksumOf(str)[1] = "#"
  /\ res = Err("BadDescriptor")

\* C8: from_str rejects a string that does not start with "el" with
\* BadDescriptor, before any checksum verification or parsing.
C8_PrefixRequired ==
  (pc = "parsed" /\ ~starts_with(str, ELMTS_STR))
    => (res = Err("BadDescriptor") /\ calls = <<>>)

\* C8: the rejected string is a descriptor with its own valid checksum.
C8_Witness ==
  /\ pc = "parsed"
  /\ ~starts_with(str, ELMTS_STR)
  /\ verify_checksum(str).ok /\ FirstOf(str, {"#"}) # 0
  /\ res = Err("BadDescriptor")
  /\ calls = <<>>

C10_ClassifiersAgree ==
  (pc = "parsed" /\ res.ok) => DescriptorType_from_str(str) = Ok(desc_type(res.v))

\* The rules of DescriptorType::from_str as (prefix, type) pairs, for stating
\* which rule ought to decide.
TypeRules ==
  {<<Tok.legacy_pegin, "LegacyPegin">>, <<Tok.pegin, "Pegin">>, <<Tok.pkh, "Pkh">>,
   <<Tok.wpkh, "Wpkh">>, <<Tok.sh \o Tok.open \o Tok.wsh, "ShWsh">>,
   <<Tok.sh \o Tok.open \o Tok.wpkh, "ShWpkh">>,
   <<Tok.sh \o Tok.open \o Tok.sortedmulti, "ShSortedMulti">>,
   <<Tok.sh \o Tok.open \o Tok.wsh \o Tok.open \o Tok.sortedmulti, "ShWshSortedMulti">>,
   <<Tok.sh, "Sh">>, <<Tok.wsh \o Tok.open \o Tok.sortedmulti, "WshSortedMulti">>,
   <<Tok.wsh, "Wsh">>, <<Tok.covwsh, "Cov">>}

\* The rules whose prefix s starts with.
MatchingRules(s) == {r \in TypeRules : starts_with(s, r[1])}

\* C11: in DescriptorType::from_str the most specific matching prefix wins:
\* when the input starts with two rule prefixes, one a proper prefix of the
\* other, the rule of the longer one decides; so "sh(wsh(sortedmulti.." is
\* ShWshSortedMulti, "sh(sortedmulti.." ShSortedMulti, "wsh(sortedmulti.."
\* WshSortedMulti.  Refuted: the "sh(wsh" rule is tested before the
\* "sh(wsh(sortedmulti" rule and decides for every such input.
C11_MostSpecificPrefixWins ==
  (pc = "typed" /\ MatchingRules(str) # {}) =>
     \E r \in MatchingRules(str) :
        /\ \A q \in MatchingRules(str) : Len(q[1]) <= Len(r[1])
        /\ res = Ok(r[2])

\* Some key leaf of d has a wildcard.
HasWildcardKey(d) == \E k \in KeySetOf(d) : key_has_wildcard(k)

\* C12: at_derivation_index(i) returns an error for every index i >= 2^31,
\* for every descriptor over DescriptorPublicKey, also one without wildcard
\* key.  Refuted: the index is only looked at by a key that has a wildcard.
C12_HardenedIndexFails ==
  (pc = "at_index" /\ arg.index.hi = 1) => ~res.ok

RECURSIVE RangeSeq(_, _)
RangeSeq(start, end) ==
  IF ~u32_less(start, end) THEN <<>> ELSE <<start>> \o RangeSeq(u32_succ(start), end)

\* The descriptor derived at index i has the script spk.
MatchesAt(d, i, spk) ==
  derived_descriptor(d, i).ok /\ script_pubkey(derived_descriptor(d, i).v) = spk

\* C14: on a descriptor with a wildcard and a range a..b,
\* find_derivation_index_for_spk derives the indexes in increasing order and
\* returns Ok(Some((i, D))) for the smallest i of the range whose derived
\* script is the target, D the descriptor derived at i, deriving nothing
\* after i; it returns Ok(None) when no index of the range matches.
\* Refuted: a covenant descriptor whose wildcard is not in every key is
\* searched at index 0 only, and a failing derivation ends the search with
\* its error.
C14_FirstMatchInRange ==
  (pc = "searched" /\ HasWildcardKey(desc)) =>
     LET idx == RangeSeq(arg.range.start, arg.range.end)
         hits == {n \in DOMAIN idx : MatchesAt(desc, idx[n], arg.spk)}
     IN IF hits = {}
        THEN res = Ok(None) /\ calls = idx
        ELSE \E n \in hits :
               /\ \A m \in hits : n <= m
               /\ res = Ok(Some(<<idx[n], derived_descriptor(desc, idx[n]).v>>))
               /\ calls = SubSeq(idx, 1, n)

\* The answer for a descriptor that is derived once, at index 0: the error of
\* the derivation, or whether the derived script is the target.
CheckedOnce(d, spk) ==
  IF ~derived_descriptor(d, U32(0, 0)).ok THEN derived_descriptor(d, U32(0, 0))
  ELSE IF script_pubkey(derived_descriptor(d, U32(0, 0)).v) = spk
  THEN Ok(Some(<<U32(0, 0), derived_descriptor(d, U32(0, 0)).v>>))
  ELSE Ok(None)

\* C15 (as amended): for a descriptor without wildcard key,
\* find_derivation_index_for_spk ignores the range, also an empty one or one
\* without 0: it derives the descriptor exactly once, at index 0, and
\* returns the error of that derivation if it fails (a multipath key),
\* Ok(Some((0, D))) if the derived script is the target, Ok(None) otherwise.
C15_NoWildcardCheckedOnce ==
  (pc = "searched" /\ ~HasWildcardKey(desc)) =>
     calls = <<U32(0, 0)>> /\ res = CheckedOnce(desc, arg.spk)

\* C15: a descriptor without wildcard was found with a range that does not
\* contain index 0.
C15_Witness ==
  /\ pc = "searched"
  /\ ~HasWildcardKey(desc)
  /\ arg.range = Range(U32(0, 1), U32(0, 3))
  /\ calls = <<U32(0, 0)>>
  /\ res.ok /\ res.v.some /\ res.v.v[1] = U32(0, 0)

\* C15 as first stated: the answer is always Some((0, D)) or None.
C15_AlwaysSomeOrNone ==
  (pc = "searched" /\ ~HasWildcardKey(desc)) =>
     /\ calls = <<U32(0, 0)>>
     /\ res.ok
     /\ res = CheckedOnce(desc, arg.spk)

Taproot(d) == d.variant \in {"Tr", "TrExt"}

\* d is a P2SH-wrapped segwit descriptor: sh(wpkh(K)) or sh(wsh(..)).
ShSegwit(d) == d.variant = "Sh" /\ d.inner.t \in {"Wsh", "Wpkh"}

\* C16: address and blinded_address return Err(BareDescriptorAddr) if and
\* only if the descriptor is Bare; for each of the other seven variants they
\* return Ok with the variant's address, the blinding key passed on exactly
\* when blinded_address is used.
C16_AddressOnlyBareFails ==
  (pc = "addressed") =>
     /\ (res.v.variant = "Bare") <=> (outs = Err("BareDescriptorAddr"))
     /\ (res.v.variant # "Bare") =>
           /\ outs = Ok(variant_address(res.v, arg.blinder, arg.params))
           /\ outs.v.blinding_pubkey.some <=> (arg.op = "blinded_address")

\* C16: a blinded address of a covenant descriptor was produced.
C16_Witness ==
  /\ pc = "addressed"
  /\ arg.op = "blinded_address"
  /\ res.v.variant = "LegacyCSFSCov"
  /\ outs.ok /\ outs.v.blinding_pubkey = Some("blinder")

\* C17: explicit_script and script_code return Err(TrNoScriptCode) if and
\* only if the descriptor is Tr or TrExt; for Bare, Pkh, Wpkh, Sh, Wsh and
\* Covenant both return Ok, and for Bare, Pkh and Wpkh explicit_script is
\* script_pubkey.
C17_ScriptOnlyTaprootFails ==
  (pc = "scripted") =>
     /\ Taproot(res.v) <=> (outs = Err("TrNoScriptCode"))
     /\ ~Taproot(res.v) => outs.ok
     /\ (arg.op = "explicit_script" /\ res.v.variant \in {"Bare", "Pkh", "Wpkh"}) =>
           outs = Ok(script_pubkey(res.v))

\* C17: the explicit script of a taproot descriptor with a script tree was
\* asked for.
C17_Witness ==
  /\ pc = "scripted"
  /\ arg.op = "explicit_script"
  /\ res.v.variant = "TrExt" /\ res.v.tree # <<>>
  /\ outs = Err("TrNoScriptCode")

\* C18 (as amended): unsigned_script_sig returns the empty script for every
\* descriptor except the P2SH-wrapped segwit forms sh(wpkh) and sh(wsh), for
\* which it is the single push of the redeem script already before
\* satisfaction.
C18_UnsignedScriptSig ==
  (pc = "unsigned") =>
     outs = (IF ShSegwit(res.v) THEN <<Push(Bytes(sh_inner_script(res.v.inner)))>> ELSE <<>>)

\* C18: the unsigned scriptSig of a sh(wpkh) descriptor was computed.
C18_Witness ==
  /\ pc = "unsigned"
  /\ res.v.variant = "Sh" /\ res.v.inner.t = "Wpkh"
  /\ outs = <<Push(Bytes(p2wpkh(res.v.inner.pk)))>>

\* C18 as first stated: the unsigned scriptSig is empty for every descriptor.
C18_AlwaysEmpty == (pc = "unsigned") => outs = <<>>

\* C19: for sh(wpkh(K)) and sh(wsh(ms)) the scriptSig a successful satisfy
\* writes into the input equals unsigned_script_sig, the single push of the
\* redeem script; for every other descriptor unsigned_script_sig is empty.
C19_ScriptSigStableUnderSigning ==
  (pc = "satisfied" /\ outs.ok) =>
     /\ ShSegwit(res.v) =>
           /\ txin.script_sig = unsigned_script_sig(res.v)
           /\ txin.script_sig = <<Push(Bytes(sh_inner_script(res.v.inner)))>>
     /\ ~ShSegwit(res.v) => unsigned_script_sig(res.v) = <<>>

\* C19: a sh(wsh(multi)) descriptor was satisfied into an input that
\* carried another scriptSig before.
C19_Witness ==
  /\ pc = "satisfied"
  /\ outs.ok
  /\ res.v.variant = "Sh" /\ res.v.inner.t = "Wsh"
  /\ arg.txin.script_sig # <<>>
  /\ Len(txin.witness) > 2
  /\ txin.script_sig = <<Push(Bytes(to_v0_p2wsh(wsh_inner_script(res.v.inner.wsh))))>>

\* C20: when get_satisfaction fails, satisfy returns that error and the
\* input keeps its witness, its scriptSig and its other fields.
C20_FailedSatisfyLeavesInput ==
  (pc = "satisfied" /\ ~get_satisfaction(res.v, arg.sat).ok) =>
     /\ txin = arg.txin
     /\ outs = get_satisfaction(res.v, arg.sat)

\* C20: a satisfy that failed on an input carrying a witness and a scriptSig.
C20_Witness ==
  /\ pc = "satisfied"
  /\ ~outs.ok
  /\ arg.txin.witness # <<>> /\ arg.txin.script_sig # <<>>
  /\ txin = arg.txin

\* The oracle that supplies nothing: no signature, no transaction.
EmptySatisfier == Satisfier({}, None, FALSE)

\* The parser accepts the printed form of d and gives d back.
AcceptedByParser(d) == Descriptor_from_str(to_string(d), "DescriptorPublicKey").r = Ok(d)

\* C21: get_satisfaction with an oracle that supplies no material returns an
\* error for every descriptor the parser accepts.
C21_NoMaterialNoWitness ==
  (pc = "satisfied" /\ arg.sat = EmptySatisfier /\ AcceptedByParser(desc)) => ~outs.ok

\* The pair that get_satisfaction returned, as satisfy wrote it.
WrittenPair == Satisfaction(txin.witness, txin.script_sig)

\* C22: when max_weight_to_satisfy returns Ok(b), the weight the pair of
\* get_satisfaction adds to the input is at most b; when it returns an
\* error, no oracle satisfies the descriptor.
C22_WeightBoundSound ==
  (pc = "weighed") =>
     /\ (chosen.ok /\ outs.ok) => satisfaction_weight(WrittenPair, CtxOf(res.v)) <= chosen.v
     /\ ~chosen.ok => ~outs.ok

\* The secret keys written in the body of a string.
SecretsIn(s) ==
  {SecretKey(n) : n \in {x \in SecretNames : \E i \in DOMAIN BodyOf(s) : BodyOf(s)[i] = x}}

\* C23: for a string s that parse_descriptor accepts with (d, km), d has only
\* public keys, km has one entry per public key obtained from a secret key
\* of s, to_string_with_secret(km) is s with its checksum, and with a map
\* that lacks a key that key is printed in its public form.
C23_SecretRoundTrip ==
  (pc = "with_secrets") =>
     /\ \A k \in KeySetOf(res.v.desc) : k.kind \in {"Single", "XPub", "MultiXPub"}
     /\ res.v.key_map = {<<to_public(sk), sk>> : sk \in SecretsIn(str)}
     /\ (arg.key_map = res.v.key_map) => outs = write_checksum(BodyOf(str))
     /\ (arg.key_map = {}) => outs = to_string(res.v.desc)

IsPrefixOf(s, t) == Len(s) <= Len(t) /\ SubSeq(t, 1, Len(s)) = s

\* C25: translate_ext calls the extension translator only for the TrExt
\* and covenant variants, and there only with the descriptor's extension
\* parameters in order; for Bare, Pkh, Wpkh, Sh, Wsh and Tr it returns Ok
\* with the very same descriptor and no call, also with a translator that
\* fails on every input; for TrExt and the covenant variant a successful
\* translation keeps the variant and every key leaf.
C25_TranslatorOnlyForExtensions ==
  pc = "translated_ext" =>
    /\ IsPrefixOf(calls, ExtParamsOf(desc))
    /\ desc.variant \notin {"TrExt", "LegacyCSFSCov"} => res = Ok(desc) /\ calls = <<>>
    /\ desc.variant \in {"TrExt", "LegacyCSFSCov"} /\ res.ok =>
         /\ res.v.variant = desc.variant
         /\ KeysOf(res.v) = KeysOf(desc)
         /\ calls = ExtParamsOf(desc)

\* C25 witness: a Tr descriptor with a script tree went through a
\* translator that fails on every input and came back unchanged.
C25_Witness ==
  /\ pc = "translated_ext"
  /\ desc.variant = "Tr" /\ desc.tree # <<>>
  /\ arg.fail_at = 1
  /\ res = Ok(desc)
  /\ calls = <<>>

\* ---------------------------------------------------------------------
\* DescriptorInfo::from_desc_str

\* The kind of a descriptor string: Elements when it has the "el" prefix,
\* Pegin when it is a pegin( or legacy_pegin( string, Bitcoin otherwise.
KindOfString(s) ==
  IF starts_with(s, ELMTS_STR) THEN "Elements"
  ELSE IF starts_with(s, Tok.pegin) \/ starts_with(s, Tok.legacy_pegin) THEN "Pegin"
  ELSE "Btc"

\* The string was written as a descriptor string of one of the three
\* kinds: an Elements descriptor as printed, without its checksum or with a
\* secret key; a descriptor of a type Bitcoin has, without the "el" prefix;
\* a pegin descriptor.
IsDescriptorString ==
  \/ origin \in {"to_string", "no_checksum", "secret", "pegin"}
  \/ origin = "no_prefix" /\ desc.variant \in {"Bare", "Pkh", "Wpkh", "Sh", "Wsh", "Tr"}

\* C26: from_desc_str succeeds for a Bitcoin, an Elements and a pegin
\* descriptor string and returns the Elements variant for an "el"-prefixed
\* string, the Pegin variant for a pegin or legacy_pegin string and the Btc
\* variant for a Bitcoin string, with has_secret true exactly when the
\* string has a secret key.  Refuted: an Elements string is reported as Btc,
\* and Bitcoin and pegin strings are rejected.
C26_ThreeKindsToldApart ==
  (pc = "info" /\ IsDescriptorString) =>
    /\ res.ok
    /\ res.v.info = KindOfString(str)
    /\ res.v.has_secret <=> SecretsIn(str) # {}

\* ---------------------------------------------------------------------
\* DescriptorType::segwit_version

\* C27: segwit_version is Some(V0) for Wpkh, ShWpkh, Wsh, ShWsh,
\* WshSortedMulti, ShWshSortedMulti and the covenant type, Some(V1) for Tr
\* and for no other type, and None for Bare, Pkh, Sh and ShSortedMulti.
\* Refuted: the covenant type gives None and LegacyPegin gives Some(V1).
C27_SegwitVersionOfType ==
  pc = "versioned" =>
    /\ arg.ty \in {"Wpkh", "ShWpkh", "Wsh", "ShWsh", "WshSortedMulti", "ShWshSortedMulti",
                   "Cov"} => chosen = Some("V0")
    /\ chosen = Some("V1") <=> arg.ty = "Tr"
    /\ arg.ty \in {"Bare", "Pkh", "Sh", "ShSortedMulti"} => chosen = None

\* ---------------------------------------------------------------------
\* for_each_key, for_any_key, has_wildcard, is_multipath

\* The predicate named pred holds for the key k.
PredHolds(pred, k) == CallPred(pred, 0, k).ret

\* C28: for every variant, for_each_key(pred) is true iff pred holds for
\* every key leaf and for_any_key(pred) is true iff pred holds for at least
\* one key leaf; has_wildcard is true iff some key leaf has a wildcard and
\* is_multipath is true iff some key leaf has more than one derivation
\* path.  Refuted on the covenant variant, whose for_each_key arm calls
\* for_any_key.
C28_EachAndAnyKey ==
  pc = "walked" =>
    /\ arg.op = "for_each_key" =>
         (chosen.ret <=> \A i \in DOMAIN KeysOf(desc) : PredHolds(arg.pred, KeysOf(desc)[i]))
    /\ arg.op = "for_any_key" =>
         (chosen.ret <=> \E i \in DOMAIN KeysOf(desc) : PredHolds(arg.pred, KeysOf(desc)[i]))
    /\ has_wildcard(desc) <=> \E i \in DOMAIN KeysOf(desc) : key_has_wildcard(KeysOf(desc)[i])
    /\ is_multipath(desc) <=> \E i \in DOMAIN KeysOf(desc) : key_is_multipath(KeysOf(desc)[i])

\* ---------------------------------------------------------------------
\* satisfy: what a call writes, and what a sequence of calls leaves

\* The witness and the scriptSig of an input.
PairOf(input) == [witness |-> input.witness, script_sig |-> input.script_sig]

\* C29: a successful satisfy replaces the input's witness and scriptSig by
\* the pair get_satisfaction returns and leaves the other fields alone, so
\* after two satisfy calls on one input, with the same or different
\* descriptors, the input carries the pair of the last successful call, or
\* the initial pair if none succeeded.
C29_LastSuccessfulCallWins ==
  pc = "satisfied_again" =>
    /\ PairOf(txin) =
         (IF get_satisfaction(chosen.d, chosen.sat).ok
          THEN get_satisfaction(chosen.d, chosen.sat).v
          ELSE IF get_satisfaction(res.v, arg.sat).ok
          THEN get_satisfaction(res.v, arg.sat).v
          ELSE PairOf(arg.txin))
    /\ txin.sequence = arg.txin.sequence
    /\ outs.ok <=> get_satisfaction(chosen.d, chosen.sat).ok
    /\ chosen.first.ok <=> get_satisfaction(res.v, arg.sat).ok

\* C29 witness: two successful calls with different descriptors on an input
\* that carried a witness and a scriptSig; the input holds the pair of the
\* second call alone.
C29_Witness ==
  /\ pc = "satisfied_again"
  /\ chosen.first.ok /\ outs.ok
  /\ chosen.d # res.v
  /\ arg.txin.witness # <<>> /\ arg.txin.script_sig # <<>>
  /\ chosen.txin.witness # <<>>
  /\ PairOf(txin) = get_satisfaction(chosen.d, chosen.sat).v
  /\ PairOf(txin) # PairOf(chosen.txin)

\* ---------------------------------------------------------------------
\* DescriptorType::from_str on any string

\* Some rule prefix is the beginning of s.
SomeRuleMatches(s) == \E rule \in TypeRules : starts_with(s, rule[1])

\* C30: DescriptorType::from_str returns Ok for every string, the empty
\* string, strings shorter than every rule prefix and strings with
\* characters of more than one byte at the compared byte offsets included,
\* and Bare when no rule prefix matches.  Refuted: slicing at a byte offset
\* inside a character panics.
C30_TypeFromStrTotal ==
  pc = "typed" =>
    /\ res.ok
    /\ ~SomeRuleMatches(str) => res = Ok("Bare")

====
